---- MODULE Spec2Model ----
(***************************************************************************)
(* Model of the session credential lifecycle of regis                      *)
(* (src-tauri/src/main.rs): the keychain-backed credential store, the      *)
(* check_and_refresh_token state machine with its subprocess calls, and    *)
(* the session monitor over the shared connection registry.                *)
(*                                                                         *)
(* Strings that the code only compares are TLA+ strings.  An               *)
(* Option<String> holding an RFC 3339 time is a record: `some` tells Some  *)
(* from None, `wf` tells whether parse_from_rfc3339 accepts the text, and  *)
(* `local`/`off` are the written local time and UTC offset (in minutes).   *)
(***************************************************************************)
EXTENDS Integers, Sequences, FiniteSets, TLC

VARIABLES
    keychain,            \* OS secret store: account string -> serialized StoredToken
    now,                 \* the wall clock read by chrono::Utc::now(), in minutes
    boundary_token_env,  \* the process-wide BOUNDARY_TOKEN environment variable
    call,                \* the in-flight check_and_refresh_token(_command) call
    ret,                 \* what the operation that just ran returned to its caller
    active_connections,  \* AppState.active_connections
    session_health,      \* AppState.session_health
    monitoring_enabled,  \* AppState.monitoring_enabled
    monitors,            \* the spawned health loops and the one-shot sweep, by task
    token_monitors,      \* the loops spawned by start_token_monitoring, by task
    tracked_ids,         \* history: every session id the registry has held
    workers,             \* commands in flight, step by step with the locks they hold
    children,            \* the RDP client processes spawned by launch_rdp_client
    config_manager       \* the ConfigManager, once constructed

tokenVars == <<keychain, now, boundary_token_env, call>>
sideVars == <<token_monitors, workers, children, config_manager>>
monitorVars == <<active_connections, session_health, monitoring_enabled, monitors,
                 token_monitors, tracked_ids, workers, children, config_manager>>
vars == <<keychain, now, boundary_token_env, call, ret,
          active_connections, session_health, monitoring_enabled, monitors,
          token_monitors, tracked_ids, workers, children, config_manager>>

(***************************************************************************)
(* Bounds and program constants                                            *)
(***************************************************************************)
MaxTime == 2
MaxConnections == 2
MaxItems == 2
MaxWords == 4

DefaultThresholdMinutes == 5
U16Max == 65535
MockResponseTimeMs == 50

(***************************************************************************)
(* Option<String> values holding times                                     *)
(***************************************************************************)
NoneStr == [some |-> FALSE, wf |-> FALSE, local |-> 0, off |-> 0]
Garbage == [some |-> TRUE, wf |-> FALSE, local |-> 0, off |-> 0]
Rfc3339(local, off) == [some |-> TRUE, wf |-> TRUE, local |-> local, off |-> off]

\* chrono::DateTime::parse_from_rfc3339: the instant is the local time minus
\* the offset; text that is not RFC 3339 is an error.
parse_from_rfc3339(s) ==
    IF s.wf THEN [ok |-> TRUE, instant |-> s.local - s.off]
    ELSE [ok |-> FALSE, instant |-> 0]

(***************************************************************************)
(* StoredToken and results                                                 *)
(***************************************************************************)
StoredToken(access_token, expires_at, server_id, user_id, scope_id) ==
    [access_token |-> access_token, expires_at |-> expires_at,
     server_id |-> server_id, user_id |-> user_id, scope_id |-> scope_id]

NoToken == StoredToken("", NoneStr, "", "", "")

Ok(token) == [kind |-> "some", tok |-> token]
OkNone == [kind |-> "none", tok |-> NoToken]
OkUnit == [kind |-> "ok", tok |-> NoToken]
Err == [kind |-> "err", tok |-> NoToken]

\* serde_json::to_string / from_str of a StoredToken: the blob value kept in
\* the keychain lists the fields in declaration order.
to_string(token) ==
    <<token.access_token, token.expires_at, token.server_id, token.user_id,
      token.scope_id>>

from_str(blob) == StoredToken(blob[1], blob[2], blob[3], blob[4], blob[5])

(***************************************************************************)
(* CredentialStore                                                         *)
(***************************************************************************)
create_keychain_entry(server_id, user_id) == user_id \o "@" \o server_id

set_password(kc, account, blob) ==
    [a \in DOMAIN kc \cup {account} |-> IF a = account THEN blob ELSE kc[a]]

delete_password(kc, account) == [a \in DOMAIN kc \ {account} |-> kc[a]]

store_auth_token(kc, token) ==
    set_password(kc, create_keychain_entry(token.server_id, token.user_id),
                 to_string(token))

\* retrieve_auth_token without the read-time expiry guard.
retrieve_auth_token_NoExpiryGuard(kc, t, server_id, user_id) ==
    LET account == create_keychain_entry(server_id, user_id) IN
    IF account \notin DOMAIN kc THEN Err ELSE Ok(from_str(kc[account]))

retrieve_auth_token(kc, t, server_id, user_id) ==
    LET account == create_keychain_entry(server_id, user_id) IN
    IF account \notin DOMAIN kc THEN Err
    ELSE LET token == from_str(kc[account])
             expiry == parse_from_rfc3339(token.expires_at)
         IN  IF token.expires_at.some /\ expiry.ok /\ t > expiry.instant
             THEN Err
             ELSE Ok(token)

\* delete_auth_token that reports success for an entry that is not there.
delete_auth_token_Idempotent(kc, server_id, user_id) ==
    [res |-> OkUnit,
     kc |-> delete_password(kc, create_keychain_entry(server_id, user_id))]

delete_auth_token(kc, server_id, user_id) ==
    LET account == create_keychain_entry(server_id, user_id) IN
    IF account \in DOMAIN kc
    THEN [res |-> OkUnit, kc |-> delete_password(kc, account)]
    ELSE [res |-> Err, kc |-> kc]

token_exists_in_keychain(kc, server_id, user_id) ==
    create_keychain_entry(server_id, user_id) \in DOMAIN kc

\* is_token_expired_or_expiring with a strict comparison at the threshold.
is_token_expired_or_expiring_Strict(token, threshold_minutes, t) ==
    IF ~token.expires_at.some THEN "false"
    ELSE LET expiry == parse_from_rfc3339(token.expires_at) IN
         IF ~expiry.ok THEN "err"
         ELSE IF t > expiry.instant - threshold_minutes THEN "true" ELSE "false"

\* Ok(true) / Ok(false) / Err of is_token_expired_or_expiring, read at clock t.
is_token_expired_or_expiring(token, threshold_minutes, t) ==
    IF ~token.expires_at.some THEN "false"
    ELSE LET expiry == parse_from_rfc3339(token.expires_at) IN
         IF ~expiry.ok THEN "err"
         ELSE IF t >= expiry.instant - threshold_minutes THEN "true" ELSE "false"

(***************************************************************************)
(* External CLI outcomes (execute_boundary_command)                        *)
(***************************************************************************)
\* A CLI run either cannot be spawned, exits non-zero, or exits zero with a
\* stdout.  For `authenticate oidc` the stdout is unparsable or a JSON object
\* whose "token", "user_id" and "expiration_time" fields may be missing.
CliFailure(kind) ==
    [kind |-> kind, token |-> "", user_id |-> "", expiration_time |-> NoneStr]

AuthJson(token, user_id, expiration_time) ==
    [kind |-> "json", token |-> token, user_id |-> user_id,
     expiration_time |-> expiration_time]

\* str::trim on a stdout given as its characters.
IsWhitespace(c) == c \in {" ", "\n"}

RECURSIVE trim_start(_)
trim_start(cs) ==
    IF cs # <<>> /\ IsWhitespace(Head(cs)) THEN trim_start(Tail(cs)) ELSE cs

RECURSIVE trim_end(_)
trim_end(cs) ==
    IF cs # <<>> /\ IsWhitespace(cs[Len(cs)])
    THEN trim_end(SubSeq(cs, 1, Len(cs) - 1))
    ELSE cs

RECURSIVE concat(_)
concat(cs) == IF cs = <<>> THEN "" ELSE Head(cs) \o concat(Tail(cs))

trim(cs) == concat(trim_end(trim_start(cs)))

\* str::eq_ignore_ascii_case against "oidc", on the type strings the CLI sends.
to_ascii_lowercase(s) == IF s = "OIDC" THEN "oidc" ELSE s

RECURSIVE filter_oidc(_)
filter_oidc(methods) ==
    IF methods = <<>> THEN <<>>
    ELSE IF to_ascii_lowercase(Head(methods).method_type) = "oidc"
         THEN <<Head(methods)>> \o filter_oidc(Tail(methods))
         ELSE filter_oidc(Tail(methods))

\* discover_oidc_auth_methods on the outcome of `auth-methods list`: the OIDC
\* methods in order, or an error (spawn failure, non-zero exit, bad JSON, or
\* no OIDC method).
discover_oidc_auth_methods(outcome) ==
    IF outcome.kind # "json" THEN [ok |-> FALSE, methods |-> <<>>]
    ELSE LET oidc_methods == filter_oidc(outcome.items) IN
         IF oidc_methods = <<>> THEN [ok |-> FALSE, methods |-> <<>>]
         ELSE [ok |-> TRUE, methods |-> oidc_methods]

\* validate_token_with_cli with the success test inverted.
validate_token_with_cli_Inverted(outcome) ==
    IF outcome = "success" THEN "false" ELSE "true"

\* validate_token_with_cli on the outcome of `auth-tokens list`.
validate_token_with_cli(outcome) ==
    IF outcome = "success" THEN "true" ELSE "false"

(***************************************************************************)
(* The in-flight check_and_refresh_token call and operation results        *)
(***************************************************************************)
Unset == [set |-> FALSE, value |-> ""]
SetTo(v) == [set |-> TRUE, value |-> v]

NoOuter == [server_id |-> "", user_id |-> "", token |-> NoToken, at |-> 0]

IdleCall ==
    [pc |-> "idle", cmd |-> FALSE, outer |-> NoOuter,
     auth_method_id |-> "", server_id |-> "", user_id |-> "",
     threshold_minutes |-> 0,
     stored |-> FALSE, stored_token |-> NoToken, retrieved_at |-> 0,
     found |-> FALSE, current_token |-> NoToken,
     checked_at |-> 0, needs_refresh |-> "na", valid |-> "na",
     pending_user_id |-> "", pending_expiration |-> NoneStr,
     subprocess_calls |-> 0, reauths |-> 0, writes |-> 0]

NoStats ==
    [total_sessions |-> 0, active_sessions |-> 0, failed_sessions |-> 0,
     monitoring_enabled |-> FALSE]

\* SessionHealth, and the value standing where no health check was returned.
SessionHealth(session_id, status, last_check, response_time_ms, error_count, consecutive_failures) ==
    [session_id |-> session_id, status |-> status, last_check |-> last_check,
     response_time_ms |-> response_time_ms, error_count |-> error_count,
     consecutive_failures |-> consecutive_failures]

NoMillis == [some |-> FALSE, ms |-> 0]
SomeMillis(ms) == [some |-> TRUE, ms |-> ms]
NoHealth == SessionHealth("", "", 0, NoMillis, 0, 0)

\* What an operation returned: `session_id` is the session a connection
\* command was about, `health` the SessionHealth of a health check and
\* `streak` the number of failed checks of that session in a row, this one
\* included.  `input` and `output` are the argument and the result of a
\* Boundary CLI operation, and `logs` the values it wrote into log records.
Returned(op, server_id, user_id, arg, res) ==
    [op |-> op, server_id |-> server_id, user_id |-> user_id, arg |-> arg,
     res |-> res, call |-> IdleCall, stats |-> NoStats, calls |-> 0,
     outcome |-> "na", session_id |-> "", health |-> NoHealth, streak |-> 0,
     input |-> "na", output |-> "na", logs |-> {}, env |-> Unset]

\* The record left by a step that returns nothing to a caller yet; `outcome`
\* is the kind of the subprocess outcome the step consumed ("na": none).
Step(op) == Returned(op, "", "", NoToken, OkUnit)
Consumed(op, outcome) == [Step(op) EXCEPT !.outcome = outcome]

\* check_and_refresh_token_command's match on the inner result.
command_result(c, res) ==
    IF res.kind = "none" THEN Ok(c.outer.token) ELSE res

\* The call returns `res` to its caller: the UI-facing command wraps the
\* inner result and reports the identity it was asked about.
ReturnAfter(c, res, outcome) ==
    /\ call' = IdleCall
    /\ ret' = IF c.cmd
              THEN [Returned("check_and_refresh_token_command", c.outer.server_id,
                             c.outer.user_id, NoToken, command_result(c, res))
                    EXCEPT !.call = c, !.calls = c.subprocess_calls,
                           !.outcome = outcome]
              ELSE [Returned("check_and_refresh_token", c.server_id, c.user_id,
                             NoToken, res)
                    EXCEPT !.call = c, !.calls = c.subprocess_calls,
                           !.outcome = outcome]

Return(c, res) == ReturnAfter(c, res, "na")

(***************************************************************************)
(* CredentialStore commands                                                *)
(***************************************************************************)
StoreAuthTokenCommand(token) ==
    /\ keychain' = store_auth_token(keychain, token)
    /\ ret' = Returned("store_auth_token", token.server_id, token.user_id,
                       token, OkUnit)
    /\ UNCHANGED <<now, boundary_token_env, call>>
    /\ UNCHANGED monitorVars

RetrieveAuthTokenCommand(server_id, user_id) ==
    /\ ret' = Returned("retrieve_auth_token", server_id, user_id, NoToken,
                       retrieve_auth_token(keychain, now, server_id, user_id))
    /\ UNCHANGED <<keychain, now, boundary_token_env, call>>
    /\ UNCHANGED monitorVars

DeleteAuthTokenCommand(server_id, user_id) ==
    LET d == delete_auth_token(keychain, server_id, user_id) IN
    /\ keychain' = d.kc
    /\ ret' = Returned("delete_auth_token", server_id, user_id, NoToken, d.res)
    /\ UNCHANGED <<now, boundary_token_env, call>>
    /\ UNCHANGED monitorVars

TokenExistsCommand(server_id, user_id) ==
    /\ ret' = Returned("token_exists", server_id, user_id, NoToken,
                       [kind |-> IF token_exists_in_keychain(keychain, server_id,
                                                             user_id)
                                 THEN "true" ELSE "false",
                        tok |-> NoToken])
    /\ UNCHANGED <<keychain, now, boundary_token_env, call>>
    /\ UNCHANGED monitorVars

\* The wall clock advances between any two steps.
ClockTick ==
    /\ now < MaxTime
    /\ now' = now + 1
    /\ ret' = Step("clock")
    /\ UNCHANGED <<keychain, boundary_token_env, call>>
    /\ UNCHANGED monitorVars

(***************************************************************************)
(* trigger_reauthentication                                                *)
(***************************************************************************)
\* reauth_response that does not stop on an unparsable response.
reauth_response_NoParseCheck(outcome) ==
    IF outcome.kind \in {"spawn_error", "nonzero"} THEN "err"
    ELSE IF outcome.token = "" THEN "get_token"
    ELSE "token"

\* What the `authenticate oidc` outcome yields: an error (spawn failure,
\* non-zero exit, unparsable stdout), a token taken from the response, or an
\* empty token that sends the code to `config get-token`.
reauth_response(outcome) ==
    IF outcome.kind # "json" THEN "err"
    ELSE IF outcome.token = "" THEN "get_token"
    ELSE "token"

\* The final token of the `config get-token` fallback, or an error.
get_token_response(outcome) ==
    IF outcome.kind = "success"
    THEN [ok |-> TRUE, final_token |-> trim(outcome.stdout)]
    ELSE [ok |-> FALSE, final_token |-> ""]

\* The StoredToken that trigger_reauthentication builds.
new_token(final_token, expiration_time, server_id, user_id) ==
    StoredToken(final_token, expiration_time, server_id, user_id, "global")

(***************************************************************************)
(* check_and_refresh_token, one action per stretch between two awaits      *)
(***************************************************************************)
\* A caller invokes check_and_refresh_token(cli, addr, auth_method_id,
\* server_id, user_id, threshold_minutes).
CheckAndRefreshToken(auth_method_id, server_id, user_id, threshold_minutes) ==
    /\ call.pc = "idle"
    /\ call' = [IdleCall EXCEPT !.pc = "retrieve",
                                !.auth_method_id = auth_method_id,
                                !.server_id = server_id, !.user_id = user_id,
                                !.threshold_minutes = threshold_minutes]
    /\ ret' = Step("invoke")
    /\ UNCHANGED <<keychain, now, boundary_token_env>>
    /\ UNCHANGED monitorVars

\* CheckRetrieve that goes on with a default token when nothing is retrieved.
CheckRetrieve_NoEarlyReturn ==
    /\ call.pc = "retrieve"
    /\ LET r == retrieve_auth_token(keychain, now, call.server_id, call.user_id) IN
       /\ call' = [call EXCEPT !.pc = "check_expiry", !.retrieved_at = now,
                                !.checked_at = now, !.current_token = r.tok]
       /\ ret' = Step("retrieved")
    /\ UNCHANGED <<keychain, now, boundary_token_env>>
    /\ UNCHANGED monitorVars

\* "Try to retrieve current token": an error of any kind is Ok(None).
CheckRetrieve ==
    /\ call.pc = "retrieve"
    /\ LET r == retrieve_auth_token(keychain, now, call.server_id, call.user_id)
           account == create_keychain_entry(call.server_id, call.user_id)
           c == [call EXCEPT
                   !.stored = account \in DOMAIN keychain,
                   !.stored_token = IF account \in DOMAIN keychain
                                    THEN from_str(keychain[account]) ELSE NoToken,
                   !.retrieved_at = now, !.checked_at = now]
       IN  IF r.kind = "err"
           THEN Return(c, OkNone)
           ELSE /\ call' = [c EXCEPT !.pc = "check_expiry", !.found = TRUE,
                                     !.current_token = r.tok]
                /\ ret' = Step("retrieved")
    /\ UNCHANGED <<keychain, now, boundary_token_env>>
    /\ UNCHANGED monitorVars

\* is_token_expired_or_expiring, then either the validation subprocess (with
\* BOUNDARY_TOKEN set for it) or the re-authentication subprocess is spawned.
CheckExpiry ==
    /\ call.pc = "check_expiry"
    /\ LET needs == is_token_expired_or_expiring(call.current_token,
                                                 call.threshold_minutes, now)
           c == [call EXCEPT !.needs_refresh = needs, !.checked_at = now]
       IN  CASE needs = "err" ->
                  /\ Return(c, Err)
                  /\ UNCHANGED boundary_token_env
             [] needs = "true" ->
                  /\ call' = [c EXCEPT !.pc = "reauth_wait",
                                       !.subprocess_calls = @ + 1,
                                       !.reauths = @ + 1]
                  /\ ret' = Step("reauthenticating")
                  /\ UNCHANGED boundary_token_env
             [] OTHER ->
                  /\ call' = [c EXCEPT !.pc = "validate_wait",
                                       !.subprocess_calls = @ + 1]
                  /\ boundary_token_env' = SetTo(call.current_token.access_token)
                  /\ ret' = Step("validating")
    /\ UNCHANGED <<keychain, now>>
    /\ UNCHANGED monitorVars

\* `auth-tokens list` finished: BOUNDARY_TOKEN is removed; a valid token is
\* returned as it is, an invalid one goes to re-authentication.
ValidateDone(outcome) ==
    /\ call.pc = "validate_wait"
    /\ boundary_token_env' = Unset
    /\ LET v == validate_token_with_cli(outcome)
           c == [call EXCEPT !.valid = v]
       IN  IF v = "true"
           THEN ReturnAfter(c, Ok(call.current_token), outcome)
           ELSE /\ call' = [c EXCEPT !.pc = "reauth_wait",
                                     !.subprocess_calls = @ + 1,
                                     !.reauths = @ + 1]
                /\ ret' = Consumed("reauthenticating", outcome)
    /\ UNCHANGED <<keychain, now>>
    /\ UNCHANGED monitorVars

\* The new token is stored and returned.
StoreAndReturn(c, token, outcome) ==
    /\ keychain' = store_auth_token(keychain, token)
    /\ ReturnAfter([c EXCEPT !.writes = @ + 1], Ok(token), outcome)

\* `authenticate oidc` finished.
ReauthDone(outcome) ==
    /\ call.pc = "reauth_wait"
    /\ LET r == reauth_response(outcome) IN
       CASE r = "err" ->
              /\ ReturnAfter(call, Err, outcome.kind)
              /\ UNCHANGED keychain
         [] r = "get_token" ->
              /\ call' = [call EXCEPT !.pc = "get_token_wait",
                                      !.pending_user_id = outcome.user_id,
                                      !.pending_expiration = outcome.expiration_time,
                                      !.subprocess_calls = @ + 1]
              /\ ret' = Consumed("getting_token", outcome.kind)
              /\ UNCHANGED keychain
         [] OTHER ->
              StoreAndReturn(call, new_token(outcome.token, outcome.expiration_time,
                                             call.server_id, outcome.user_id),
                             outcome.kind)
    /\ UNCHANGED <<now, boundary_token_env>>
    /\ UNCHANGED monitorVars

\* `config get-token` finished.
GetTokenDone(outcome) ==
    /\ call.pc = "get_token_wait"
    /\ LET r == get_token_response(outcome) IN
       IF r.ok
       THEN StoreAndReturn(call, new_token(r.final_token, call.pending_expiration,
                                           call.server_id, call.pending_user_id),
                           outcome.kind)
       ELSE /\ ReturnAfter(call, Err, outcome.kind)
            /\ UNCHANGED keychain
    /\ UNCHANGED <<now, boundary_token_env>>
    /\ UNCHANGED monitorVars

(***************************************************************************)
(* check_and_refresh_token_command                                         *)
(***************************************************************************)
\* Option<u32>::unwrap_or(5); None is [some |-> FALSE].
unwrap_or_default_threshold(threshold_minutes) ==
    IF threshold_minutes.some THEN threshold_minutes.value
    ELSE DefaultThresholdMinutes

\* The command retrieves the current token and looks the server up, then
\* spawns `auth-methods list`.
CheckAndRefreshTokenCommand(servers, server_id, user_id, threshold_minutes) ==
    /\ call.pc = "idle"
    /\ LET r == retrieve_auth_token(keychain, now, server_id, user_id) IN
       IF r.kind = "err" \/ server_id \notin servers
       THEN /\ ret' = Returned("check_and_refresh_token_command", server_id,
                               user_id, NoToken, Err)
            /\ call' = IdleCall
       ELSE /\ call' = [IdleCall EXCEPT
                          !.pc = "discover_wait", !.cmd = TRUE,
                          !.outer = [server_id |-> server_id, user_id |-> user_id,
                                     token |-> r.tok, at |-> now],
                          !.threshold_minutes =
                              unwrap_or_default_threshold(threshold_minutes),
                          !.subprocess_calls = 1]
            /\ ret' = Step("discovering")
    /\ UNCHANGED <<keychain, now, boundary_token_env>>
    /\ UNCHANGED monitorVars

\* `auth-methods list` finished: with the first OIDC method's id the command
\* calls check_and_refresh_token(&cli_path, &server.url,
\* &current_token.access_token, &auth_method_id, &server_id, threshold), whose
\* parameters are (cli_path, server_addr, auth_method_id, server_id, user_id,
\* threshold_minutes).
DiscoverDone(outcome) ==
    /\ call.pc = "discover_wait"
    /\ LET d == discover_oidc_auth_methods(outcome) IN
       IF ~d.ok
       THEN ReturnAfter(call, Err, outcome.kind)
       ELSE /\ call' = [call EXCEPT
                          !.pc = "retrieve",
                          !.auth_method_id = call.outer.token.access_token,
                          !.server_id = Head(d.methods).id,
                          !.user_id = call.outer.server_id]
            /\ ret' = Consumed("invoke", outcome.kind)
    /\ UNCHANGED <<keychain, now, boundary_token_env>>
    /\ UNCHANGED monitorVars

(***************************************************************************)
(* ConnectionRegistry: establish and terminate                             *)
(***************************************************************************)
\* str::to_lowercase on the connection type strings the UI sends.
to_lowercase(s) ==
    CASE s = "RDP" -> "rdp"
      [] s = "SSH" -> "ssh"
      [] s = "INFO" -> "info"
      [] s = "Dark" -> "dark"
      [] OTHER -> s

SupportedConnectionTypes == {"ssh", "rdp", "tcp", "http"}

\* The free text of `connect` is the sequence of its whitespace-separated
\* words; `digits` is the run of decimal digits a word starts with.
Word(word, digits) == [word |-> word, digits |-> digits]

\* The number a run of decimal digits writes.
RECURSIVE decimal(_)
decimal(digits) ==
    IF digits = <<>> THEN 0
    ELSE 10 * decimal(SubSeq(digits, 1, Len(digits) - 1)) + digits[Len(digits)]

\* Regex::captures for "Address:\s+([^\s]+)" and "Port:\s+(\d+)": the
\* leftmost match of each pattern.  `address` is "" when the first has no
\* match, `has_port` tells whether the second matches and `port` is the
\* number its digits write.
regex_captures(text) ==
    LET address_at == {k \in 1..(Len(text) - 1) : text[k].word = "Address:"}
        port_at == {k \in 1..(Len(text) - 1) :
                       text[k].word = "Port:" /\ text[k + 1].digits # <<>>}
        first(at) == CHOOSE k \in at : \A j \in at : k <= j
    IN  [address |-> IF address_at = {} THEN ""
                     ELSE text[first(address_at) + 1].word,
         has_port |-> port_at # {},
         port |-> IF port_at = {} THEN 0
                  ELSE decimal(text[first(port_at) + 1].digits)]

\* parse_connection_info with the port cast to u16 instead of parsed as u16.
parse_connection_info_Cast(text) ==
    LET output == regex_captures(text)
        address == IF output.address = "" THEN "127.0.0.1" ELSE output.address
        port == IF output.has_port THEN output.port % (U16Max + 1) ELSE 0
    IN  IF port = 0
        THEN [ok |-> FALSE, address |-> "", port |-> 0]
        ELSE [ok |-> TRUE, address |-> address, port |-> port]

\* parse_connection_info on the free text of `connect`.  A port that does
\* not fit u16 or is absent becomes 0, and 0 is an error.
parse_connection_info(text) ==
    LET output == regex_captures(text)
        address == IF output.address = "" THEN "127.0.0.1" ELSE output.address
        port == IF output.has_port /\ output.port <= U16Max THEN output.port ELSE 0
    IN  IF port = 0
        THEN [ok |-> FALSE, address |-> "", port |-> 0]
        ELSE [ok |-> TRUE, address |-> address, port |-> port]

\* The pieces of the message of execute_boundary_command's error.
spawn_error_message(args) ==
    <<"Failed to execute Boundary CLI command ">> \o args

\* The argument list of the `connect` subprocess.
connect_args(authorization, type_str) ==
    <<"connect", type_str, "-authz-token", authorization.authorization_token>>

\* establish_connection that takes port 0 where the output names no port.
establish_connection_PortZero(authorization, type_str, outcome) ==
    IF outcome.kind # "success"
    THEN [ok |-> FALSE, connection |-> <<>>, error |-> <<outcome.stderr>>]
    ELSE LET info == parse_connection_info(outcome.stdout) IN
         [ok |-> TRUE, error |-> <<>>,
          connection |-> [session_id |-> authorization.session_id,
                          connection_type |-> type_str,
                          local_address |-> info.address,
                          local_port |-> info.port,
                          status |-> "active"]]

\* establish_connection on the outcome of the `connect` subprocess; `error`
\* holds the pieces of the error message.
establish_connection(authorization, type_str, outcome) ==
    IF outcome.kind = "spawn_error"
    THEN [ok |-> FALSE, connection |-> <<>>,
          error |-> spawn_error_message(connect_args(authorization, type_str))]
    ELSE IF outcome.kind # "success"
    THEN [ok |-> FALSE, connection |-> <<>>,
          error |-> <<"Failed to establish ", type_str, " connection: ",
                      outcome.stderr>>]
    ELSE LET info == parse_connection_info(outcome.stdout) IN
         IF ~info.ok
         THEN [ok |-> FALSE, connection |-> <<>>,
               error |-> <<"Failed to parse valid port from connection output">>]
         ELSE [ok |-> TRUE, error |-> <<>>,
               connection |-> [session_id |-> authorization.session_id,
                               connection_type |-> type_str,
                               local_address |-> info.address,
                               local_port |-> info.port,
                               status |-> "active"]]

\* A search that falls back to the last connection when no connection
\* carries the id, and reports the last match instead of the first.
position_Last(connections, session_id, i) ==
    LET found == {k \in i..Len(connections) : connections[k].session_id = session_id}
    IN  IF found = {} THEN Len(connections)
        ELSE CHOOSE k \in found : \A l \in found : l <= k

RECURSIVE position(_, _, _)
position(connections, session_id, i) ==
    IF i > Len(connections) THEN 0
    ELSE IF connections[i].session_id = session_id THEN i
    ELSE position(connections, session_id, i + 1)

\* Vec::remove that also drops everything behind the index.
remove_Truncate(connections, index) == SubSeq(connections, 1, index - 1)

remove(connections, index) ==
    SubSeq(connections, 1, index - 1) \o
    SubSeq(connections, index + 1, Len(connections))

\* establish_connection_command, at the completion of its subprocess: every
\* failure returns before the registry is touched.
EstablishConnectionCommand(authorization, connection_type, outcome) ==
    /\ Len(active_connections) < MaxConnections
    /\ LET type_str == to_lowercase(connection_type)
           e == establish_connection(authorization, type_str, outcome)
           returned(res, calls) ==
               [Returned("establish_connection", "", "", NoToken, res)
                EXCEPT !.session_id = authorization.session_id, !.calls = calls]
       IN  IF type_str \notin SupportedConnectionTypes
           THEN /\ ret' = returned(Err, 0)
                /\ UNCHANGED <<active_connections, tracked_ids>>
           ELSE IF ~e.ok
           THEN /\ ret' = returned(Err, 1)
                /\ UNCHANGED <<active_connections, tracked_ids>>
           ELSE /\ active_connections' = Append(active_connections, e.connection)
                /\ tracked_ids' = tracked_ids \cup {e.connection.session_id}
                /\ ret' = returned(OkUnit, 1)
    /\ UNCHANGED <<session_health, monitoring_enabled, monitors>>
    /\ UNCHANGED <<tokenVars, sideVars>>

TerminateConnectionCommand(session_id) ==
    /\ LET index == position(active_connections, session_id, 1)
           returned(res) ==
               [Returned("terminate_connection", "", "", NoToken, res)
                EXCEPT !.session_id = session_id]
       IN  IF index = 0
           THEN /\ ret' = returned(Err)
                /\ UNCHANGED active_connections
           ELSE /\ active_connections' = remove(active_connections, index)
                /\ ret' = returned(OkUnit)
    /\ UNCHANGED <<session_health, monitoring_enabled, monitors>>
    /\ UNCHANGED <<tokenVars, sideVars, tracked_ids>>

(***************************************************************************)
(* SessionMonitor                                                          *)
(***************************************************************************)
\* Task 0 is monitor_sessions_once_command; the tasks of LoopTasks are the loops
\* that start_session_monitoring spawns.
OnceTask == 0
LoopTasks == {1, 2}
MonitorTasks == {OnceTask} \cup LoopTasks

NoSweep == [pc |-> "none", health_checks |-> <<>>, stats |-> NoStats]

\* A health entry filed under the connection's local address.
health_of_WrongKey(connection, t) ==
    SessionHealth(connection.local_address, "healthy", t,
                  SomeMillis(MockResponseTimeMs), 0, 0)

\* The SessionHealth that monitor_active_sessions builds for a connection.
health_of(connection, t) ==
    SessionHealth(connection.session_id,
                  IF connection.status = "active" THEN "healthy" ELSE "unhealthy",
                  t, SomeMillis(MockResponseTimeMs), 0, 0)

health_checks_of(connections, t) ==
    [i \in 1 .. Len(connections) |-> health_of(connections[i], t)]

count_status(health_checks, healthy) ==
    Cardinality({i \in 1 .. Len(health_checks) :
                   (health_checks[i].status = "healthy") = healthy})

stats_of(health_checks) ==
    [total_sessions |-> Len(health_checks),
     active_sessions |-> count_status(health_checks, TRUE),
     failed_sessions |-> count_status(health_checks, FALSE),
     monitoring_enabled |-> TRUE]

\* HashMap::insert of every health check, in order.
RECURSIVE insert_all(_, _)
insert_all(table, health_checks) ==
    IF health_checks = <<>> THEN table
    ELSE LET h == Head(health_checks) IN
         insert_all([k \in DOMAIN table \cup {h.session_id} |->
                        IF k = h.session_id THEN h ELSE table[k]],
                    Tail(health_checks))

\* Where a task goes when monitor_active_sessions returns.
after_sweep(i) == IF i = OnceTask THEN "none" ELSE "waiting"

\* sweep_on_flag that never looks at the flag.
sweep_on_flag_Ignored(enabled) == "snapshot"

\* What monitor_active_sessions does on the flag it reads first.
sweep_on_flag(enabled) == IF enabled THEN "snapshot" ELSE "return_disabled"

\* What the loop does on the flag it reads at a tick.
loop_on_flag(enabled) == IF enabled THEN "monitor" ELSE "exited"

MonitorReturned(stats) ==
    [Returned("monitor_active_sessions", "", "", NoToken, OkUnit)
     EXCEPT !.stats = stats]

\* The flag is set and a new loop is spawned; it gets the first task of `tasks`
\* that holds no running loop.
StartSessionMonitoringCommand(tasks) ==
    /\ \E i \in tasks :
         /\ monitors[i].pc \in {"none", "exited"}
         /\ \A j \in tasks : j < i => monitors[j].pc \notin {"none", "exited"}
         /\ monitors' = [monitors EXCEPT ![i].pc = "waiting"]
    /\ monitoring_enabled' = TRUE
    /\ ret' = Returned("start_session_monitoring", "", "", NoToken, OkUnit)
    /\ UNCHANGED <<active_connections, session_health>>
    /\ UNCHANGED <<tokenVars, sideVars, tracked_ids>>

StopSessionMonitoringCommand ==
    /\ monitoring_enabled' = FALSE
    /\ ret' = Returned("stop_session_monitoring", "", "", NoToken, OkUnit)
    /\ UNCHANGED <<active_connections, session_health, monitors>>
    /\ UNCHANGED <<tokenVars, sideVars, tracked_ids>>

\* interval.tick() fires in a loop: the loop reads the flag and either breaks
\* or calls monitor_active_sessions.
LoopTick(i) ==
    /\ monitors[i].pc = "waiting"
    /\ monitors' = [monitors EXCEPT ![i].pc = loop_on_flag(monitoring_enabled)]
    /\ ret' = Step("loop_tick")
    /\ UNCHANGED <<active_connections, session_health, monitoring_enabled>>
    /\ UNCHANGED <<tokenVars, sideVars, tracked_ids>>

MonitorSessionsOnceCommand ==
    /\ monitors[OnceTask].pc = "none"
    /\ monitors' = [monitors EXCEPT ![OnceTask].pc = "monitor"]
    /\ ret' = Step("monitor_once")
    /\ UNCHANGED <<active_connections, session_health, monitoring_enabled>>
    /\ UNCHANGED <<tokenVars, sideVars, tracked_ids>>

\* monitor_active_sessions reads the flag: disabled returns zero statistics.
MonitorCheckEnabled(i) ==
    /\ monitors[i].pc = "monitor"
    /\ IF sweep_on_flag(monitoring_enabled) = "return_disabled"
       THEN /\ monitors' = [monitors EXCEPT ![i] = [NoSweep EXCEPT !.pc = after_sweep(i)]]
            /\ ret' = MonitorReturned(NoStats)
       ELSE /\ monitors' = [monitors EXCEPT ![i].pc = "snapshot"]
            /\ ret' = Step("sweep_enabled")
    /\ UNCHANGED <<active_connections, session_health, monitoring_enabled>>
    /\ UNCHANGED <<tokenVars, sideVars, tracked_ids>>

\* The connection list is cloned under its lock and the health checks are
\* built from the clone.
MonitorSnapshot(i) ==
    /\ monitors[i].pc = "snapshot"
    /\ LET checks == health_checks_of(active_connections, now) IN
       monitors' = [monitors EXCEPT ![i] = [pc |-> "write", health_checks |-> checks,
                                            stats |-> stats_of(checks)]]
    /\ ret' = Step("sweep_snapshot")
    /\ UNCHANGED <<active_connections, session_health, monitoring_enabled>>
    /\ UNCHANGED <<tokenVars, sideVars, tracked_ids>>

\* A write-back that also drops the swept connections from the registry.
MonitorWrite_Pruning(i) ==
    /\ monitors[i].pc = "write"
    /\ session_health' = insert_all(session_health, monitors[i].health_checks)
    /\ active_connections' =
         SelectSeq(active_connections,
                   LAMBDA c : \A k \in 1 .. Len(monitors[i].health_checks) :
                                 monitors[i].health_checks[k].session_id # c.session_id)
    /\ monitors' = [monitors EXCEPT ![i] = [NoSweep EXCEPT !.pc = after_sweep(i)]]
    /\ ret' = MonitorReturned(monitors[i].stats)
    /\ UNCHANGED monitoring_enabled
    /\ UNCHANGED <<tokenVars, sideVars, tracked_ids>>

\* The health checks are inserted under the health-table lock.
MonitorWrite(i) ==
    /\ monitors[i].pc = "write"
    /\ session_health' = insert_all(session_health, monitors[i].health_checks)
    /\ monitors' = [monitors EXCEPT ![i] = [NoSweep EXCEPT !.pc = after_sweep(i)]]
    /\ ret' = MonitorReturned(monitors[i].stats)
    /\ UNCHANGED <<active_connections, monitoring_enabled>>
    /\ UNCHANGED <<tokenVars, sideVars, tracked_ids>>

(***************************************************************************)
(* Token monitoring loop                                                   *)
(***************************************************************************)
TokenTasks == {1}

\* auto_logout_expired_tokens: a placeholder that logs a warning and returns
\* the empty list; the keychain is not enumerated and nothing is deleted.
auto_logout_expired_tokens(kc) == [kc |-> kc, logged_out_servers |-> <<>>]

\* What the token loop does on the flag it reads at a tick: it reads the same
\* AppState.monitoring_enabled as the session-health loop.
token_loop_on_flag(enabled) == IF enabled THEN "waiting" ELSE "exited"

\* start_token_auto_refresh_command: a loop is spawned on the first task of
\* `tasks` that holds no running loop; the flag is not touched.
StartTokenAutoRefreshCommand(tasks) ==
    /\ \E j \in tasks :
         /\ token_monitors[j] \in {"none", "exited"}
         /\ \A k \in tasks : k < j => token_monitors[k] \notin {"none", "exited"}
         /\ token_monitors' = [token_monitors EXCEPT ![j] = "waiting"]
    /\ ret' = Returned("start_token_auto_refresh", "", "", NoToken, OkUnit)
    /\ UNCHANGED <<active_connections, session_health, monitoring_enabled, monitors>>
    /\ UNCHANGED <<tokenVars, tracked_ids, workers, children, config_manager>>

\* interval.tick() fires in a token loop: the loop reads the flag and either
\* breaks or runs the auto-logout check.
TokenLoopTick(j) ==
    /\ token_monitors[j] = "waiting"
    /\ token_monitors' =
         [token_monitors EXCEPT ![j] = token_loop_on_flag(monitoring_enabled)]
    /\ keychain' = auto_logout_expired_tokens(keychain).kc
    /\ ret' = Step("token_loop_tick")
    /\ UNCHANGED <<active_connections, session_health, monitoring_enabled, monitors>>
    /\ UNCHANGED <<now, boundary_token_env, call, tracked_ids, workers, children, config_manager>>

(***************************************************************************)
(* check_session_health                                                    *)
(***************************************************************************)
MaxStreak == 3
MaxChildren == 1

\* The outcome of `sessions read -id <id> -format json`: `parses` tells
\* whether stdout is JSON, `status` is its "status" string if it has one and
\* `elapsed_ms` is the time the call took.
SomeStatus(text) == [some |-> TRUE, text |-> text]
NoStatus == [some |-> FALSE, text |-> ""]
SessionReadFailure(kind) ==
    [kind |-> kind, parses |-> FALSE, status |-> NoStatus, elapsed_ms |-> 0]
SessionReadJson(status, elapsed_ms) ==
    [kind |-> "success", parses |-> TRUE, status |-> status, elapsed_ms |-> elapsed_ms]
SessionReadText(elapsed_ms) ==
    [kind |-> "success", parses |-> FALSE, status |-> NoStatus, elapsed_ms |-> elapsed_ms]

\* check_session_health on the outcome of its subprocess.
check_session_health(session_id, outcome, t) ==
    LET session_status == IF outcome.status.some THEN outcome.status.text
                          ELSE "unknown"
        status == CASE outcome.kind = "spawn_error" -> "error"
                    [] outcome.kind = "nonzero" -> "unhealthy"
                    [] outcome.kind = "success" /\ ~outcome.parses -> "healthy"
                    [] outcome.kind = "success" /\ outcome.parses ->
                         IF session_status = "active" THEN "healthy"
                         ELSE "session_status_" \o session_status
        response_time == IF outcome.kind = "success"
                         THEN SomeMillis(outcome.elapsed_ms) ELSE NoMillis
        error_count == IF outcome.kind = "success" THEN 0 ELSE 1
    IN  SessionHealth(session_id, status, t, response_time, error_count,
                      IF error_count > 0 THEN 1 ELSE 0)

\* A call of check_session_health, at the completion of its subprocess.
CheckSessionHealth(session_id, outcome) ==
    /\ LET failed == outcome.kind # "success"
           before == IF ret.op = "check_session_health" /\ ret.session_id = session_id
                     THEN ret.streak ELSE 0
           streak == IF failed THEN before + 1 ELSE 0
       IN  /\ streak <= MaxStreak
           /\ ret' = [Returned("check_session_health", "", "", NoToken, OkUnit)
                      EXCEPT !.session_id = session_id,
                             !.health = check_session_health(session_id, outcome, now),
                             !.streak = streak,
                             !.calls = 1,
                             !.outcome = outcome.kind]
    /\ UNCHANGED <<keychain, now, boundary_token_env, call>>
    /\ UNCHANGED monitorVars

\* get_monitoring_stats: the length of the registry, and one count per
\* entry of the health table by its status.
get_monitoring_stats(connections, health, enabled) ==
    [total_sessions |-> Len(connections),
     active_sessions |-> Cardinality({k \in DOMAIN health : health[k].status = "healthy"}),
     failed_sessions |-> Cardinality({k \in DOMAIN health : health[k].status # "healthy"}),
     monitoring_enabled |-> enabled]

GetMonitoringStatsCommand ==
    /\ ret' = [Returned("get_monitoring_stats", "", "", NoToken, OkUnit)
               EXCEPT !.stats = get_monitoring_stats(active_connections, session_health,
                                                     monitoring_enabled)]
    /\ UNCHANGED <<tokenVars, monitorVars>>

(***************************************************************************)
(* Commands step by step, with the AppState locks they hold                *)
(***************************************************************************)
\* launch_rdp_client_command, establish_connection_command and
\* terminate_connection_command run by a worker, one step per lock
\* acquisition, critical section and awaited subprocess.  `holds` is the set
\* of AppState mutexes whose guard the worker has in scope and `in_flight`
\* tells whether it is awaiting a subprocess.
Workers == {1, 2}

\* ConfigManager::new has not run.
NoManager == [constructed |-> FALSE]

NoConnection ==
    [session_id |-> "", connection_type |-> "", local_address |-> "",
     local_port |-> 0, status |-> ""]

IdleWorker ==
    [pc |-> "idle", holds |-> {}, in_flight |-> FALSE, session_id |-> "",
     connection |-> NoConnection, args |-> <<>>, call |-> IdleCall,
     token |-> NoToken]

\* Mutex::lock succeeds when no guard of the mutex is alive.
LockFree(lock) == \A w \in Workers : lock \notin workers[w].holds

\* A guard that is never dropped.
drop_guard_Leaked(holds, lock) == holds

\* The guard of `lock` goes out of scope at the end of its block.
drop_guard(holds, lock) == holds \ {lock}

WorkerReturned(op, session_id, res) ==
    [Returned(op, "", "", NoToken, res) EXCEPT !.session_id = session_id]

\* launch_rdp_client_command locks the connection list.
LaunchRdpClientCommand(w, session_id) ==
    /\ workers[w].pc = "idle"
    /\ LockFree("active_connections")
    /\ workers' = [workers EXCEPT ![w] =
                     [IdleWorker EXCEPT !.pc = "launch_find",
                                        !.holds = {"active_connections"},
                                        !.session_id = session_id]]
    /\ ret' = Step("launch_lock")
    /\ UNCHANGED <<active_connections, session_health, monitoring_enabled, monitors>>
    /\ UNCHANGED <<tokenVars, token_monitors, tracked_ids, children, config_manager>>

\* The connection is looked up and cloned, the block ends, and
\* detect_rdp_clients starts its subprocesses; an unknown session returns.
LaunchFind(w) ==
    /\ workers[w].pc = "launch_find"
    /\ LET index == position(active_connections, workers[w].session_id, 1)
           holds == drop_guard(workers[w].holds, "active_connections")
       IN  IF index = 0
           THEN /\ workers' = [workers EXCEPT ![w] = IdleWorker]
                /\ ret' = WorkerReturned("launch_rdp_client", workers[w].session_id, Err)
           ELSE /\ workers' = [workers EXCEPT ![w].pc = "detect_wait",
                                              ![w].holds = holds,
                                              ![w].in_flight = TRUE,
                                              ![w].connection = active_connections[index]]
                /\ ret' = Step("launch_find")
    /\ UNCHANGED <<active_connections, session_health, monitoring_enabled, monitors>>
    /\ UNCHANGED <<tokenVars, token_monitors, tracked_ids, children, config_manager>>

\* detect_rdp_clients returns: with no client the command fails, otherwise
\* launch_rdp_client spawns the chosen client.
LaunchDetectDone(w, found_client) ==
    /\ workers[w].pc = "detect_wait"
    /\ IF ~found_client
       THEN /\ workers' = [workers EXCEPT ![w] = IdleWorker]
            /\ ret' = [WorkerReturned("launch_rdp_client", workers[w].session_id, Err)
                       EXCEPT !.calls = 1]
       ELSE /\ workers' = [workers EXCEPT ![w].pc = "launch_wait"]
            /\ ret' = Step("launch_detect")
    /\ UNCHANGED <<active_connections, session_health, monitoring_enabled, monitors>>
    /\ UNCHANGED <<tokenVars, token_monitors, tracked_ids, children, config_manager>>

\* A slot of the process table: the client spawned into it, and whether a
\* task holds the Child and awaits child.wait().
NoChild == [status |-> "none", waiter |-> FALSE]

Children == 1..MaxChildren

\* The Child is dropped without a task that waits for it.
spawn_wait_task_Detached(child) == child

\* tokio::spawn(async move { child.wait().await ... }): the task owns the
\* Child from the moment it is spawned.
spawn_wait_task(child) ==
    [child EXCEPT !.waiter = TRUE]

\* A slot that holds no process: never used, or reaped.
FreeSlots == {c \in Children : children[c].status \in {"none", "reaped"}}

\* cmd.spawn() returns: on Ok the wait task is spawned and the command
\* returns Ok(()) at once while the client runs; on Err it returns the error.
LaunchDone(w, spawned) ==
    /\ workers[w].pc = "launch_wait"
    /\ spawned => FreeSlots # {}
    /\ workers' = [workers EXCEPT ![w] = IdleWorker]
    /\ ret' = [WorkerReturned("launch_rdp_client", workers[w].session_id,
                              IF spawned THEN OkUnit ELSE Err)
               EXCEPT !.calls = 2]
    /\ children' = IF spawned
                   THEN LET c == CHOOSE c \in FreeSlots : \A d \in FreeSlots : c <= d
                        IN  [children EXCEPT ![c] =
                               spawn_wait_task([status |-> "running", waiter |-> FALSE])]
                   ELSE children
    /\ UNCHANGED <<active_connections, session_health, monitoring_enabled, monitors>>
    /\ UNCHANGED <<tokenVars, token_monitors, tracked_ids, config_manager>>

\* The user closes the RDP client: the process exits and stays in the
\* process table until it is waited for.
ClientExits(c) ==
    /\ children[c].status = "running"
    /\ children' = [children EXCEPT ![c].status = "exited"]
    /\ ret' = Step("client_exits")
    /\ UNCHANGED <<tokenVars, active_connections, session_health, monitoring_enabled,
                   monitors, token_monitors, tracked_ids, workers, config_manager>>

\* child.wait() of the background task returns the exit status.
WaitTask(c) ==
    /\ children[c].status = "exited"
    /\ children[c].waiter
    /\ children' = [children EXCEPT ![c].status = "reaped"]
    /\ ret' = Step("client_reaped")
    /\ UNCHANGED <<tokenVars, active_connections, session_health, monitoring_enabled,
                   monitors, token_monitors, tracked_ids, workers, config_manager>>

\* Connections that workers are about to push.
PendingPushes ==
    Cardinality({w \in Workers :
                   workers[w].pc \in {"connect_wait", "push_lock", "push"}})

\* establish_connection_command starts the `connect` subprocess.
EstablishBegin(w, authorization, connection_type) ==
    /\ workers[w].pc = "idle"
    /\ Len(active_connections) + PendingPushes < MaxConnections
    /\ IF to_lowercase(connection_type) \notin SupportedConnectionTypes
       THEN /\ ret' = WorkerReturned("establish_connection", authorization.session_id, Err)
            /\ UNCHANGED workers
       ELSE /\ workers' = [workers EXCEPT ![w] =
                             [IdleWorker EXCEPT !.pc = "connect_wait",
                                                !.in_flight = TRUE,
                                                !.session_id = authorization.session_id,
                                                !.connection =
                                                   [NoConnection EXCEPT !.connection_type =
                                                      to_lowercase(connection_type)]]]
            /\ ret' = Step("establish_begin")
    /\ UNCHANGED <<active_connections, session_health, monitoring_enabled, monitors>>
    /\ UNCHANGED <<tokenVars, token_monitors, tracked_ids, children, config_manager>>

\* establish_connection returns.
EstablishConnectDone(w, outcome) ==
    /\ workers[w].pc = "connect_wait"
    /\ LET e == establish_connection([session_id |-> workers[w].session_id],
                                     workers[w].connection.connection_type, outcome)
       IN  IF ~e.ok
           THEN /\ workers' = [workers EXCEPT ![w] = IdleWorker]
                /\ ret' = [WorkerReturned("establish_connection", workers[w].session_id, Err)
                           EXCEPT !.calls = 1]
           ELSE /\ workers' = [workers EXCEPT ![w].pc = "push_lock",
                                              ![w].in_flight = FALSE,
                                              ![w].connection = e.connection]
                /\ ret' = Consumed("establish_connected", outcome.kind)
    /\ UNCHANGED <<active_connections, session_health, monitoring_enabled, monitors>>
    /\ UNCHANGED <<tokenVars, token_monitors, tracked_ids, children, config_manager>>

\* The connection list is locked for the push.
EstablishLock(w) ==
    /\ workers[w].pc = "push_lock"
    /\ LockFree("active_connections")
    /\ workers' = [workers EXCEPT ![w].pc = "push",
                                  ![w].holds = {"active_connections"}]
    /\ ret' = Step("establish_lock")
    /\ UNCHANGED <<active_connections, session_health, monitoring_enabled, monitors>>
    /\ UNCHANGED <<tokenVars, token_monitors, tracked_ids, children, config_manager>>

EstablishPush(w) ==
    /\ workers[w].pc = "push"
    /\ active_connections' = Append(active_connections, workers[w].connection)
    /\ tracked_ids' = tracked_ids \cup {workers[w].connection.session_id}
    /\ workers' = [workers EXCEPT ![w] = IdleWorker]
    /\ ret' = [WorkerReturned("establish_connection", workers[w].session_id, OkUnit)
               EXCEPT !.calls = 1]
    /\ UNCHANGED <<session_health, monitoring_enabled, monitors>>
    /\ UNCHANGED <<tokenVars, token_monitors, children, config_manager>>

\* terminate_connection_command locks the connection list.
TerminateLock(w, session_id) ==
    /\ workers[w].pc = "idle"
    /\ LockFree("active_connections")
    /\ workers' = [workers EXCEPT ![w] =
                     [IdleWorker EXCEPT !.pc = "remove",
                                        !.holds = {"active_connections"},
                                        !.session_id = session_id]]
    /\ ret' = Step("terminate_lock")
    /\ UNCHANGED <<active_connections, session_health, monitoring_enabled, monitors>>
    /\ UNCHANGED <<tokenVars, token_monitors, tracked_ids, children, config_manager>>

\* The connection is removed, the block ends and terminate_connection, which
\* starts no subprocess, returns.
TerminateRemove(w) ==
    /\ workers[w].pc = "remove"
    /\ LET index == position(active_connections, workers[w].session_id, 1) IN
       IF index = 0
       THEN /\ ret' = WorkerReturned("terminate_connection", workers[w].session_id, Err)
            /\ UNCHANGED active_connections
       ELSE /\ active_connections' = remove(active_connections, index)
            /\ ret' = WorkerReturned("terminate_connection", workers[w].session_id, OkUnit)
    /\ workers' = [workers EXCEPT ![w] = IdleWorker]
    /\ UNCHANGED <<session_health, monitoring_enabled, monitors>>
    /\ UNCHANGED <<tokenVars, token_monitors, tracked_ids, children, config_manager>>

\* The steps of the monitoring tasks are whole critical sections: each runs
\* when the mutex it locks is free.
StartSessionMonitoringLocked(tasks) ==
    LockFree("monitoring_enabled") /\ StartSessionMonitoringCommand(tasks)
StopSessionMonitoringLocked ==
    LockFree("monitoring_enabled") /\ StopSessionMonitoringCommand
LoopTickLocked(i) ==
    LockFree("monitoring_enabled") /\ LoopTick(i)
MonitorCheckEnabledLocked(i) ==
    LockFree("monitoring_enabled") /\ MonitorCheckEnabled(i)
MonitorSnapshotLocked(i) ==
    LockFree("active_connections") /\ MonitorSnapshot(i)
MonitorWriteLocked(i) ==
    LockFree("session_health") /\ MonitorWrite(i)

(***************************************************************************)
(* Token commands run by workers, one step per statement that touches      *)
(* state the commands share                                                *)
(***************************************************************************)
\* Tauri runs every invocation of an async command as its own task on the
\* multi-threaded runtime: the tasks of two invocations run in parallel and
\* share the keychain and the process environment.
registryVars == <<active_connections, session_health, monitoring_enabled, monitors,
                  token_monitors, tracked_ids, children, config_manager>>

TokenReturned(op, c, res, outcome) ==
    [Returned(op, c.server_id, c.user_id, NoToken, res)
     EXCEPT !.call = c, !.calls = c.subprocess_calls, !.outcome = outcome]

\* A retrieval that hands out the stored token whatever its expiry.
retrieved_call_NoExpiryGuard(kc, t, server_id, user_id) ==
    LET account == create_keychain_entry(server_id, user_id)
        stored == account \in DOMAIN kc
        token == IF stored THEN from_str(kc[account]) ELSE NoToken
    IN  [IdleCall EXCEPT
           !.server_id = server_id, !.user_id = user_id,
           !.stored = stored, !.stored_token = token,
           !.retrieved_at = t, !.checked_at = t,
           !.found = stored, !.current_token = token]

\* What a command knows after `retrieve_auth_token(&server_id, &user_id)`.
retrieved_call(kc, t, server_id, user_id) ==
    LET r == retrieve_auth_token(kc, t, server_id, user_id)
        account == create_keychain_entry(server_id, user_id)
    IN  [IdleCall EXCEPT
           !.server_id = server_id, !.user_id = user_id,
           !.stored = account \in DOMAIN kc,
           !.stored_token = IF account \in DOMAIN kc
                            THEN from_str(kc[account]) ELSE NoToken,
           !.retrieved_at = t, !.checked_at = t,
           !.found = r.kind # "err", !.current_token = r.tok]

\* validate_token_command: the stored token is retrieved and the server is
\* looked up; either failure returns the error.
ValidateTokenCommand(w, servers, server_id, user_id) ==
    /\ workers[w].pc = "idle"
    /\ LET c == retrieved_call(keychain, now, server_id, user_id) IN
       IF ~c.found \/ server_id \notin servers
       THEN /\ ret' = TokenReturned("validate_token_command", c, Err, "na")
            /\ UNCHANGED workers
       ELSE /\ workers' = [workers EXCEPT ![w] =
                             [IdleWorker EXCEPT !.pc = "validate_set_var", !.call = c]]
            /\ ret' = Step("validate_retrieved")
    /\ UNCHANGED <<tokenVars, registryVars>>

\* validate_token_with_cli: std::env::set_var("BOUNDARY_TOKEN", access_token).
ValidateSetVar(w) ==
    /\ workers[w].pc = "validate_set_var"
    /\ boundary_token_env' = SetTo(workers[w].call.current_token.access_token)
    /\ workers' = [workers EXCEPT ![w].pc = "validate_spawn"]
    /\ ret' = Step("validate_set_var")
    /\ UNCHANGED <<keychain, now, call, registryVars>>

\* execute_boundary_command spawns `auth-tokens list`: the child inherits the
\* environment of the process as it is at this moment.
ValidateSpawn(w) ==
    /\ workers[w].pc = "validate_spawn"
    /\ LET c == [workers[w].call EXCEPT !.subprocess_calls = @ + 1] IN
       /\ workers' = [workers EXCEPT ![w].pc = "validate_wait",
                                     ![w].in_flight = TRUE,
                                     ![w].call = c]
       /\ ret' = [TokenReturned("validate_spawn", c, OkUnit, "na")
                  EXCEPT !.env = boundary_token_env]
    /\ UNCHANGED <<tokenVars, registryVars>>

\* The subprocess finished: std::env::remove_var("BOUNDARY_TOKEN"), and the
\* command returns Ok(valid).
ValidateTokenDone(w, outcome) ==
    /\ workers[w].pc = "validate_wait"
    /\ boundary_token_env' = Unset
    /\ workers' = [workers EXCEPT ![w] = IdleWorker]
    /\ ret' = TokenReturned("validate_token_command",
                            [workers[w].call EXCEPT !.valid = validate_token_with_cli(outcome)],
                            OkUnit, outcome)
    /\ UNCHANGED <<keychain, now, call, registryVars>>

\* The command returns `res`.
WorkerReturns(w, op, c, res, outcome) ==
    /\ workers' = [workers EXCEPT ![w] = IdleWorker]
    /\ ret' = TokenReturned(op, c, res, outcome)

\* refresh_auth_token_command: the stored token is retrieved and the server
\* is looked up, either failure returns the error; then `auth-methods list`
\* is spawned.
RefreshAuthTokenCommand(w, servers, server_id, user_id) ==
    /\ workers[w].pc = "idle"
    /\ LET c == retrieved_call(keychain, now, server_id, user_id) IN
       IF ~c.found \/ server_id \notin servers
       THEN /\ ret' = TokenReturned("refresh_auth_token_command", c, Err, "na")
            /\ UNCHANGED workers
       ELSE /\ workers' = [workers EXCEPT ![w] =
                             [IdleWorker EXCEPT
                                !.pc = "refresh_discover_wait", !.in_flight = TRUE,
                                !.call = [c EXCEPT !.subprocess_calls = 1]]]
            /\ ret' = Step("refresh_discovering")
    /\ UNCHANGED <<tokenVars, registryVars>>

\* `auth-methods list` finished: without an OIDC method the command fails,
\* otherwise trigger_reauthentication spawns `authenticate oidc`.
RefreshDiscoverDone(w, outcome) ==
    /\ workers[w].pc = "refresh_discover_wait"
    /\ LET d == discover_oidc_auth_methods(outcome)
           c == workers[w].call
       IN  IF ~d.ok
           THEN WorkerReturns(w, "refresh_auth_token_command", c, Err, outcome.kind)
           ELSE /\ workers' = [workers EXCEPT
                                ![w].pc = "refresh_reauth_wait",
                                ![w].call = [c EXCEPT
                                               !.auth_method_id = Head(d.methods).id,
                                               !.subprocess_calls = @ + 1,
                                               !.reauths = @ + 1]]
                /\ ret' = Consumed("refresh_reauthenticating", outcome.kind)
    /\ UNCHANGED <<tokenVars, registryVars>>

\* `authenticate oidc` finished: trigger_reauthentication returns the new
\* token, goes to `config get-token`, or fails.
RefreshReauthDone(w, outcome) ==
    /\ workers[w].pc = "refresh_reauth_wait"
    /\ LET r == reauth_response(outcome)
           c == workers[w].call
       IN  CASE r = "err" ->
                  WorkerReturns(w, "refresh_auth_token_command", c, Err, outcome.kind)
             [] r = "get_token" ->
                  /\ workers' = [workers EXCEPT
                                  ![w].pc = "refresh_get_token_wait",
                                  ![w].call = [c EXCEPT
                                      !.pending_user_id = outcome.user_id,
                                      !.pending_expiration = outcome.expiration_time,
                                      !.subprocess_calls = @ + 1]]
                  /\ ret' = Consumed("refresh_getting_token", outcome.kind)
             [] OTHER ->
                  /\ workers' = [workers EXCEPT
                                  ![w].pc = "refresh_store",
                                  ![w].in_flight = FALSE,
                                  ![w].token = new_token(outcome.token,
                                                         outcome.expiration_time,
                                                         c.server_id, outcome.user_id)]
                  /\ ret' = Consumed("refresh_reauthenticated", outcome.kind)
    /\ UNCHANGED <<tokenVars, registryVars>>

\* `config get-token` finished.
RefreshGetTokenDone(w, outcome) ==
    /\ workers[w].pc = "refresh_get_token_wait"
    /\ LET r == get_token_response(outcome)
           c == workers[w].call
       IN  IF r.ok
           THEN /\ workers' = [workers EXCEPT
                                ![w].pc = "refresh_store",
                                ![w].in_flight = FALSE,
                                ![w].token = new_token(r.final_token, c.pending_expiration,
                                                       c.server_id, c.pending_user_id)]
                /\ ret' = Consumed("refresh_reauthenticated", outcome.kind)
           ELSE WorkerReturns(w, "refresh_auth_token_command", c, Err, outcome.kind)
    /\ UNCHANGED <<tokenVars, registryVars>>

\* store_auth_token(&refreshed_token), and the command returns the token.
RefreshStore(w) ==
    /\ workers[w].pc = "refresh_store"
    /\ keychain' = store_auth_token(keychain, workers[w].token)
    /\ WorkerReturns(w, "refresh_auth_token_command",
                     [workers[w].call EXCEPT !.writes = @ + 1],
                     Ok(workers[w].token), "na")
    /\ UNCHANGED <<now, boundary_token_env, call, registryVars>>

\* complete_oidc_auth_workflow_command: the stored token is retrieved; with
\* no scope it is returned as it is, with a scope the copy gets the scope.
CompleteOidcAuthWorkflowCommand(w, server_id, user_id, scope_id) ==
    /\ workers[w].pc = "idle"
    /\ LET c == retrieved_call(keychain, now, server_id, user_id) IN
       CASE ~c.found ->
              /\ ret' = TokenReturned("complete_oidc_auth_workflow_command", c, Err, "na")
              /\ UNCHANGED workers
         [] c.found /\ ~scope_id.some ->
              /\ ret' = TokenReturned("complete_oidc_auth_workflow_command", c,
                                      Ok(c.current_token), "na")
              /\ UNCHANGED workers
         [] OTHER ->
              /\ workers' = [workers EXCEPT ![w] =
                               [IdleWorker EXCEPT
                                  !.pc = "complete_store", !.call = c,
                                  !.token = [c.current_token EXCEPT
                                               !.scope_id = scope_id.value]]]
              /\ ret' = Step("complete_retrieved")
    /\ UNCHANGED <<tokenVars, registryVars>>

\* store_auth_token(&token) of the copy, and the command returns it.
CompleteStore(w) ==
    /\ workers[w].pc = "complete_store"
    /\ keychain' = store_auth_token(keychain, workers[w].token)
    /\ WorkerReturns(w, "complete_oidc_auth_workflow_command",
                     [workers[w].call EXCEPT !.writes = @ + 1],
                     Ok(workers[w].token), "na")
    /\ UNCHANGED <<now, boundary_token_env, call, registryVars>>

(***************************************************************************)
(* The Boundary CLI runner                                                 *)
(***************************************************************************)
\* What a subprocess left behind, as its caller sees it: `kind` tells a
\* spawn failure from a non-zero and a zero exit, `stdout` and `stderr` are
\* the captured streams.
CliOutcome(kind, stdout, stderr) == [kind |-> kind, stdout |-> stdout, stderr |-> stderr]

\* The text `connect` prints for a proxy listening on address:port.
ListeningOn(address, port) ==
    <<Word("Address:", <<>>), address, Word("Port:", <<>>), port>>

\* Result<T, String>: `error` holds the pieces of the error message.
Success(value) == [ok |-> TRUE, value |-> value, error |-> <<>>]
Failure(error) == [ok |-> FALSE, value |-> <<>>, error |-> error]

\* BoundaryCommandResult that reports every child that ended as a success.
BoundaryCommandResult_AnyExit(output, args) ==
    [success |-> TRUE,
     exit_code |-> IF output.signaled THEN -1 ELSE output.code,
     stdout |-> output.stdout, stderr |-> output.stderr, command |-> args]

\* BoundaryCommandResult from the Output of a child that ended: `signaled`
\* tells that ExitStatus::code() is None.
BoundaryCommandResult(output, args) ==
    [success |-> ~output.signaled /\ output.code = 0,
     exit_code |-> IF output.signaled THEN -1 ELSE output.code,
     stdout |-> output.stdout, stderr |-> output.stderr, command |-> args]

\* The values execute_boundary_command writes into its log records: the
\* command string and the argument list.
execute_logs(args) == {args[k] : k \in DOMAIN args}

\* The operation record of a Boundary CLI operation.
CliReturned(op, outcome, input, output, logs) ==
    [Returned(op, "", "", NoToken, IF output.ok THEN OkUnit ELSE Err)
     EXCEPT !.outcome = outcome, !.input = input, !.output = output,
            !.logs = logs, !.calls = 1]

\* execute_boundary_command up to Command::output(): the command is logged
\* and the child is spawned.  `spawn` tells whether the executable cannot be
\* started, the child will exit, or the child never exits.
ExecuteBoundaryCommand(w, args, spawn) ==
    /\ workers[w].pc = "idle"
    /\ IF spawn = "spawn_error"
       THEN /\ ret' = CliReturned("execute_boundary_command", spawn,
                                  [args |-> args],
                                  Failure(spawn_error_message(args)),
                                  execute_logs(args))
            /\ UNCHANGED workers
       ELSE /\ workers' = [workers EXCEPT ![w] =
                             [IdleWorker EXCEPT !.pc = spawn, !.in_flight = TRUE,
                                                !.args = args]]
            /\ ret' = [Step("spawn") EXCEPT !.input = args,
                                            !.logs = execute_logs(args)]
    /\ UNCHANGED <<tokenVars, token_monitors, tracked_ids, children, config_manager>>
    /\ UNCHANGED <<active_connections, session_health, monitoring_enabled, monitors>>

\* The child exits and Command::output() returns its Output.
ChildExit(w, output) ==
    /\ workers[w].pc = "running"
    /\ ret' = CliReturned("execute_boundary_command",
                          IF output.signaled \/ output.code # 0
                          THEN "nonzero" ELSE "success",
                          [args |-> workers[w].args, output |-> output],
                          Success(BoundaryCommandResult(output, workers[w].args)),
                          {})
    /\ workers' = [workers EXCEPT ![w] = IdleWorker]
    /\ UNCHANGED <<tokenVars, token_monitors, tracked_ids, children, config_manager>>
    /\ UNCHANGED <<active_connections, session_health, monitoring_enabled, monitors>>

(***************************************************************************)
(* Discovery, session authorization and their JSON parsers                 *)
(***************************************************************************)
\* serde_json::Value, and a stdout that is not JSON.
JsonNull == [kind |-> "null"]
JsonNumber(n) == [kind |-> "number", n |-> n]
JsonString(s) == [kind |-> "string", s |-> s]
JsonArray(elems) == [kind |-> "array", elems |-> elems]
JsonObject(fields) == [kind |-> "object", fields |-> fields]
NotJson == [kind |-> "text"]

\* serde_json::from_str::<Value> on a stdout.
from_str_value(stdout) ==
    IF stdout.kind = "text" THEN [ok |-> FALSE, json |-> JsonNull]
    ELSE [ok |-> TRUE, json |-> stdout]

\* Value's Index<&str>: Null for a missing key and for a value that is not
\* an object.
json_index(json, key) ==
    IF json.kind = "object" /\ key \in DOMAIN json.fields
    THEN json.fields[key] ELSE JsonNull

\* Value::as_str, as an Option and with unwrap_or("").
as_str(json) ==
    IF json.kind = "string" THEN [some |-> TRUE, text |-> json.s] ELSE NoStatus
as_str_or_empty(json) == IF json.kind = "string" THEN json.s ELSE ""

\* Value::as_u64().map(|p| p as u16) and Value::as_i64().unwrap_or(-1).
as_u16(json) ==
    IF json.kind = "number" /\ json.n >= 0
    THEN [some |-> TRUE, value |-> json.n % (U16Max + 1)]
    ELSE [some |-> FALSE, value |-> 0]
as_i64_or_minus_one(json) == IF json.kind = "number" THEN json.n ELSE -1

\* `if let Some(items) = json["items"].as_array()` where items without an id
\* are skipped.
items_of_WithId(json) ==
    LET items == json_index(json, "items")
        has_id(item) == json_index(item, "id").kind = "string"
    IN  IF items.kind = "array" THEN SelectSeq(items.elems, has_id) ELSE <<>>

\* `if let Some(items) = json["items"].as_array()`: the items the loop runs
\* over.
items_of(json) ==
    LET items == json_index(json, "items") IN
    IF items.kind = "array" THEN items.elems ELSE <<>>

\* BoundaryAuthMethod and BoundaryScope from a list item.
BoundaryAuthMethod(item) ==
    [id |-> as_str_or_empty(json_index(item, "id")),
     name |-> as_str_or_empty(json_index(item, "name")),
     method_type |-> as_str_or_empty(json_index(item, "type")),
     description |-> as_str_or_empty(json_index(item, "description"))]

BoundaryScope(item) ==
    [id |-> as_str_or_empty(json_index(item, "id")),
     name |-> as_str_or_empty(json_index(item, "name")),
     scope_type |-> as_str_or_empty(json_index(item, "type")),
     description |-> as_str_or_empty(json_index(item, "description"))]

BoundaryTarget(item) ==
    [id |-> as_str_or_empty(json_index(item, "id")),
     name |-> as_str_or_empty(json_index(item, "name")),
     target_type |-> as_str_or_empty(json_index(item, "type")),
     description |-> as_str_or_empty(json_index(item, "description")),
     address |-> as_str(json_index(item, "address")),
     default_port |-> as_u16(json_index(item, "default_port"))]

\* discover_auth_methods on the outcome of `auth-methods list`.
discover_auth_methods(outcome) ==
    IF outcome.kind = "spawn_error"
    THEN Failure(spawn_error_message(<<"auth-methods", "list">>))
    ELSE IF outcome.kind # "success"
    THEN Failure(<<"Failed to discover auth methods: ", outcome.stderr>>)
    ELSE LET parsed == from_str_value(outcome.stdout)
             items == items_of(parsed.json)
         IN  IF ~parsed.ok THEN Failure(<<"Failed to parse auth methods JSON">>)
             ELSE Success([k \in 1..Len(items) |-> BoundaryAuthMethod(items[k])])

\* discover_scopes on the outcome of `scopes list`.
discover_scopes(outcome) ==
    IF outcome.kind = "spawn_error"
    THEN Failure(spawn_error_message(<<"scopes", "list">>))
    ELSE IF outcome.kind # "success"
    THEN Failure(<<"Failed to discover scopes: ", outcome.stderr>>)
    ELSE LET parsed == from_str_value(outcome.stdout)
             items == items_of(parsed.json)
         IN  IF ~parsed.ok THEN Failure(<<"Failed to parse scopes JSON">>)
             ELSE Success([k \in 1..Len(items) |-> BoundaryScope(items[k])])

\* discover_targets on the outcome of `targets list`.
discover_targets(outcome) ==
    IF outcome.kind = "spawn_error"
    THEN Failure(spawn_error_message(<<"targets", "list">>))
    ELSE IF outcome.kind # "success"
    THEN Failure(<<"Failed to discover targets: ", outcome.stderr>>)
    ELSE LET parsed == from_str_value(outcome.stdout)
             items == items_of(parsed.json)
         IN  IF ~parsed.ok THEN Failure(<<"Failed to parse targets JSON">>)
             ELSE Success([k \in 1..Len(items) |-> BoundaryTarget(items[k])])

\* discover_all_targets that gives up at the first scope whose discovery
\* fails.
RECURSIVE append_targets_Abort(_, _)
append_targets_Abort(results, k) ==
    IF k > Len(results) \/ ~results[k].ok THEN <<>>
    ELSE results[k].value \o append_targets_Abort(results, k + 1)

\* The loop of discover_all_targets from scope k on: the targets of a scope
\* are appended, a scope whose discovery fails is skipped.
RECURSIVE append_targets(_, _)
append_targets(results, k) ==
    IF k > Len(results) THEN <<>>
    ELSE (IF results[k].ok THEN results[k].value ELSE <<>>)
         \o append_targets(results, k + 1)

\* discover_all_targets on the outcome of `scopes list` and the outcomes of
\* the `targets list` of each scope, in scope order.
discover_all_targets(scopes_outcome, targets_outcomes) ==
    LET scopes == discover_scopes(scopes_outcome) IN
    IF ~scopes.ok THEN scopes
    ELSE Success(append_targets(
             [k \in 1..Len(scopes.value) |-> discover_targets(targets_outcomes[k])],
             1))

\* BoundarySessionAuthorization from the JSON of `targets authorize-session`.
BoundarySessionAuthorization(json) ==
    [authorization_token |-> as_str_or_empty(json_index(json, "authorization_token")),
     session_id |-> as_str_or_empty(json_index(json, "session_id")),
     target_id |-> as_str_or_empty(json_index(json, "target_id")),
     user_id |-> as_str_or_empty(json_index(json, "user_id")),
     host_id |-> as_str(json_index(json, "host_id")),
     scope_id |-> as_str_or_empty(json_index(json, "scope_id")),
     created_time |-> as_str_or_empty(json_index(json, "created_time")),
     expiration_time |-> as_str(json_index(json, "expiration_time")),
     connection_limit |-> as_i64_or_minus_one(json_index(json, "connection_limit"))]

\* authorize_session that parses stdout whatever the exit status was.
authorize_session_AnyExit(outcome) ==
    IF outcome.kind = "spawn_error"
    THEN Failure(spawn_error_message(<<"targets", "authorize-session">>))
    ELSE LET parsed == from_str_value(outcome.stdout) IN
         IF ~parsed.ok THEN Failure(<<"Failed to parse session authorization JSON">>)
         ELSE Success(BoundarySessionAuthorization(parsed.json))

\* authorize_session on the outcome of `targets authorize-session`.
authorize_session(outcome) ==
    IF outcome.kind = "spawn_error"
    THEN Failure(spawn_error_message(<<"targets", "authorize-session">>))
    ELSE IF outcome.kind # "success"
    THEN Failure(<<"Failed to authorize session for target: ", outcome.stderr>>)
    ELSE LET parsed == from_str_value(outcome.stdout) IN
         IF ~parsed.ok THEN Failure(<<"Failed to parse session authorization JSON">>)
         ELSE Success(BoundarySessionAuthorization(parsed.json))

\* The values authorize_session writes into its log records: the session id
\* at info level and the Debug form of the whole authorization at debug
\* level.
authorize_session_logs(result) ==
    IF ~result.ok THEN {result.error[k] : k \in DOMAIN result.error}
    ELSE {result.value.session_id} \cup
         {result.value[f] :
             f \in {"authorization_token", "session_id", "target_id", "user_id",
                    "scope_id", "created_time"}}

\* verify_oidc_support on the outcome of `auth-methods list`.
verify_oidc_support(outcome) ==
    LET oidc_methods == discover_oidc_auth_methods(outcome) IN
    IF oidc_methods.ok THEN Success(oidc_methods.methods # <<>>)
    ELSE Success(FALSE)

\* The kind of failure, if any, a subprocess outcome with a JSON stdout
\* holds.
failure_of(outcome) ==
    IF outcome.kind = "success" /\ outcome.stdout.kind = "text" THEN "bad_json"
    ELSE outcome.kind

\* The operations, each at the completion of its subprocess.  They read
\* nothing but their arguments, so each is applied once, to the state where
\* nothing has run yet.
DiscoverAuthMethods(outcome) ==
    /\ ret.op = "init"
    /\ ret' = CliReturned("discover_auth_methods", failure_of(outcome), outcome,
                          discover_auth_methods(outcome), {})
    /\ UNCHANGED <<tokenVars, monitorVars>>

DiscoverScopes(outcome) ==
    /\ ret.op = "init"
    /\ ret' = CliReturned("discover_scopes", failure_of(outcome), outcome,
                          discover_scopes(outcome), {})
    /\ UNCHANGED <<tokenVars, monitorVars>>

DiscoverTargets(outcome) ==
    /\ ret.op = "init"
    /\ ret' = CliReturned("discover_targets", failure_of(outcome), outcome,
                          discover_targets(outcome), {})
    /\ UNCHANGED <<tokenVars, monitorVars>>

DiscoverAllTargets(scopes_outcome, targets_outcomes) ==
    /\ ret.op = "init"
    /\ ret' = CliReturned("discover_all_targets", failure_of(scopes_outcome),
                          [scopes |-> scopes_outcome, targets |-> targets_outcomes],
                          discover_all_targets(scopes_outcome, targets_outcomes),
                          {})
    /\ UNCHANGED <<tokenVars, monitorVars>>

AuthorizeSession(outcome) ==
    /\ ret.op = "init"
    /\ LET result == authorize_session(outcome) IN
       ret' = CliReturned("authorize_session", failure_of(outcome), outcome,
                          result, authorize_session_logs(result))
    /\ UNCHANGED <<tokenVars, monitorVars>>

\* establish_connection: #[instrument] records the arguments of the call, and
\* execute_boundary_command logs the command it runs.
EstablishConnection(authorization, type_str, outcome) ==
    /\ ret.op = "init"
    /\ LET e == establish_connection(authorization, type_str, outcome) IN
       ret' = CliReturned("establish_connection",
                          IF outcome.kind = "success" /\ ~e.ok THEN "bad_output"
                          ELSE outcome.kind,
                          [authorization |-> authorization, outcome |-> outcome],
                          e,
                          {authorization[f] : f \in DOMAIN authorization} \cup
                          execute_logs(connect_args(authorization, type_str)))
    /\ UNCHANGED <<tokenVars, monitorVars>>

ParseConnectionInfo(text) ==
    /\ ret.op = "init"
    /\ ret' = CliReturned("parse_connection_info", "na", text,
                          parse_connection_info(text), {})
    /\ UNCHANGED <<tokenVars, monitorVars>>

VerifyOidcSupport(outcome) ==
    /\ ret.op = "init"
    /\ ret' = CliReturned("verify_oidc_support",
                          IF outcome.kind = "json" THEN "success" ELSE outcome.kind,
                          outcome, verify_oidc_support(outcome), {})
    /\ UNCHANGED <<tokenVars, monitorVars>>

ValidateTokenWithCli(outcome) ==
    /\ ret.op = "init"
    /\ ret' = CliReturned("validate_token_with_cli", outcome, outcome,
                          Success(validate_token_with_cli(outcome)), {})
    /\ UNCHANGED <<tokenVars, monitorVars>>

(***************************************************************************)
(* Configuration: merge, validation and the ConfigManager                  *)
(***************************************************************************)
\* merge_json_values that merges the top level only.
merge_json_values_Shallow(default, user) ==
    IF default.kind = "object" /\ user.kind = "object"
    THEN JsonObject([key \in DOMAIN default.fields \cup DOMAIN user.fields |->
                       IF key \in DOMAIN user.fields THEN user.fields[key]
                       ELSE default.fields[key]])
    ELSE user

\* merge_json_values: two objects are merged key by key, a user array
\* replaces a default array, and in every other case the user value stands.
RECURSIVE merge_json_values(_, _)
merge_json_values(default, user) ==
    CASE default.kind = "object" /\ user.kind = "object" ->
           JsonObject([key \in DOMAIN default.fields \cup DOMAIN user.fields |->
                         IF key \notin DOMAIN user.fields THEN default.fields[key]
                         ELSE IF key \in DOMAIN default.fields
                         THEN merge_json_values(default.fields[key], user.fields[key])
                         ELSE user.fields[key]])
      [] default.kind = "array" /\ user.kind = "array" -> JsonArray(user.elems)
      [] OTHER -> user

MergeJsonValues(default, user) ==
    /\ ret.op = "init"
    /\ ret' = [Step("merge_json_values")
               EXCEPT !.input = [default |-> default, user |-> user],
                      !.output = merge_json_values(default, user)]
    /\ UNCHANGED <<tokenVars, monitorVars>>

\* A URL string: its text, the scheme before its first ':' ("" when there is
\* none) and the host after "//".
Url(text, scheme, host) == [text |-> text, scheme |-> scheme, host |-> host]
NoUrl == Url("", "", "")
SpecialSchemes == {"http", "https"}

\* url::Url::parse succeeds on an absolute URL; a special scheme needs a host.
url_parse(url) ==
    /\ url.scheme # ""
    /\ url.scheme \in SpecialSchemes => url.host # ""

\* The parts of AppConfig that validate_config reads.
BoundaryServer(id, url) == [id |-> id, url |-> url]
AppConfig(servers, level, theme) ==
    [servers |-> servers, logging |-> [level |-> level], ui |-> [theme |-> theme]]

\* AppConfig::default().
AppConfigDefault ==
    AppConfig(<<BoundaryServer("demo-boundary",
                               Url("https://demo.boundary.io", "https",
                                   "demo.boundary.io"))>>,
              "debug", "auto")

\* serde_json::to_value(&config).
to_value(config) ==
    JsonObject(
      [servers |-> JsonArray([i \in 1..Len(config.servers) |->
                                JsonObject([id |-> JsonString(config.servers[i].id),
                                            url |-> JsonString(config.servers[i].url)])]),
       logging |-> JsonObject([level |-> JsonString(config.logging.level)]),
       ui |-> JsonObject([theme |-> JsonString(config.ui.theme)])])

has_string(json, key) ==
    /\ json.kind = "object"
    /\ key \in DOMAIN json.fields
    /\ json.fields[key].kind = "string"

\* serde_json::from_value::<AppConfig>: every field must be there with its type.
from_value(json) ==
    LET ok == /\ json.kind = "object"
              /\ {"servers", "logging", "ui"} \subseteq DOMAIN json.fields
              /\ json.fields["servers"].kind = "array"
              /\ \A i \in 1..Len(json.fields["servers"].elems) :
                    /\ has_string(json.fields["servers"].elems[i], "id")
                    /\ has_string(json.fields["servers"].elems[i], "url")
              /\ has_string(json.fields["logging"], "level")
              /\ has_string(json.fields["ui"], "theme")
    IN  IF ~ok THEN [ok |-> FALSE, config |-> AppConfigDefault]
        ELSE [ok |-> TRUE,
              config |->
                AppConfig([i \in 1..Len(json.fields["servers"].elems) |->
                             BoundaryServer(json.fields["servers"].elems[i].fields["id"].s,
                                            json.fields["servers"].elems[i].fields["url"].s)],
                          json.fields["logging"].fields["level"].s,
                          json.fields["ui"].fields["theme"].s)]

LoggingLevels == {"trace", "debug", "info", "warn", "error"}
UiThemes == {"auto", "light", "dark"}

\* validate_config without the URL format check.
validate_config_NoUrlParse(config) ==
    /\ \A i \in 1..Len(config.servers) :
         config.servers[i].id # "" /\ config.servers[i].url.text # ""
    /\ to_lowercase(config.logging.level) \in LoggingLevels
    /\ to_lowercase(config.ui.theme) \in UiThemes

\* validate_config: TRUE for Ok(()).
validate_config(config) ==
    /\ \A i \in 1..Len(config.servers) :
         /\ config.servers[i].id # ""
         /\ config.servers[i].url.text # ""
         /\ url_parse(config.servers[i].url)
    /\ to_lowercase(config.logging.level) \in LoggingLevels
    /\ to_lowercase(config.ui.theme) \in UiThemes

\* A configuration file: missing, unreadable, not the JSON it has to be, or
\* its content (an AppConfig for default.json, a Value for user.json).
FileMissing == [kind |-> "missing"]
FileUnreadable == [kind |-> "unreadable"]
FileBadJson == [kind |-> "bad_json"]
DefaultFile(config) == [kind |-> "json", config |-> config]
UserFile(json) == [kind |-> "json", json |-> json]

\* The configuration that load_merged_config hands to validate_config, when
\* it gets that far.
merged_config(default_file, user_file) ==
    LET base == IF default_file.kind = "json" THEN default_file.config
                ELSE AppConfigDefault
    IN  CASE default_file.kind = "bad_json" -> [ok |-> FALSE, config |-> AppConfigDefault]
          [] default_file.kind # "bad_json" /\ user_file.kind = "missing" ->
               [ok |-> TRUE, config |-> base]
          [] default_file.kind # "bad_json" /\ user_file.kind \in {"unreadable", "bad_json"} ->
               [ok |-> FALSE, config |-> AppConfigDefault]
          [] OTHER -> from_value(merge_json_values(to_value(base), user_file.json))

load_merged_config(default_file, user_file) ==
    LET merged == merged_config(default_file, user_file) IN
    IF merged.ok /\ validate_config(merged.config) THEN merged
    ELSE [ok |-> FALSE, config |-> AppConfigDefault]

ConfigReturned(op, default_file, user_file, res) ==
    [Step(op) EXCEPT !.res = res,
                     !.input = [default_file |-> default_file, user_file |-> user_file]]

\* ConfigManager::new and new_with_paths.
NewConfigManager(default_file, user_file) ==
    /\ ~config_manager.constructed
    /\ LET loaded == load_merged_config(default_file, user_file) IN
       IF loaded.ok
       THEN /\ config_manager' = [constructed |-> TRUE, config |-> loaded.config]
            /\ ret' = ConfigReturned("new", default_file, user_file, OkUnit)
       ELSE /\ UNCHANGED config_manager
            /\ ret' = ConfigReturned("new", default_file, user_file, Err)
    /\ UNCHANGED <<tokenVars, active_connections, session_health, monitoring_enabled,
                   monitors, token_monitors, tracked_ids, workers, children>>

\* ConfigManager::reload.
Reload(default_file, user_file) ==
    /\ config_manager.constructed
    /\ LET loaded == load_merged_config(default_file, user_file) IN
       IF loaded.ok
       THEN /\ config_manager' = [config_manager EXCEPT !.config = loaded.config]
            /\ ret' = ConfigReturned("reload", default_file, user_file, OkUnit)
       ELSE /\ UNCHANGED config_manager
            /\ ret' = ConfigReturned("reload", default_file, user_file, Err)
    /\ UNCHANGED <<tokenVars, active_connections, session_health, monitoring_enabled,
                   monitors, token_monitors, tracked_ids, workers, children>>

(***************************************************************************)
(* Inputs                                                                  *)
(***************************************************************************)
ExpiryTimes == {NoneStr, Garbage, Rfc3339(2, 1), Rfc3339(7, 1)}

\* Identities of the credential-store specification: ids are free strings and
\* may contain '@'.
StoreServers == {"s", "t@s"}
StoreUsers == {"u", "u@t"}
StoreTokens ==
    {StoredToken(a, e, s, u, "global") :
        a \in {"a1", "a2"}, e \in ExpiryTimes, s \in StoreServers, u \in StoreUsers}

\* Inputs of the refresh specification.
ConfigServers == {"s"}
RefreshUsers == {"u"}
RefreshTokens ==
    {StoredToken("a1", e, s, u, "global") :
        e \in ExpiryTimes, s \in ConfigServers, u \in RefreshUsers}
Thresholds == {0, DefaultThresholdMinutes}
ValidateUsers == {"u", "v"}

\* The server issues a new access token with every authentication; the
\* token is named after the time it is issued at, "l" for the token of an
\* interactive login and "n" for the token of a re-authentication.
login_name(t) == "l" \o ToString(t)
issued_name(t) == "n" \o ToString(t)
login_token(t, e) == StoredToken(login_name(t), e, "s", "u", "global")
ExpiredReauthOutcomes ==
    {CliFailure("nonzero"), AuthJson("n1", "u", Rfc3339(7, 1)),
     AuthJson("", "u", Rfc3339(7, 1))}
ExpiredGetTokenOutcomes ==
    {[kind |-> "nonzero", stdout |-> <<>>],
     [kind |-> "success", stdout |-> <<"n1", "\n">>]}
ExpiringTokens ==
    {StoredToken("a1", e, "s", "u", "global") : e \in {Rfc3339(2, 1), Rfc3339(7, 1)}}
RaceReauthOutcomes(t) ==
    {CliFailure("nonzero"), AuthJson(issued_name(t), "u", Rfc3339(7, 1)),
     AuthJson("", "u", Rfc3339(7, 1))}
RaceGetTokenOutcomes(t) ==
    {[kind |-> "nonzero", stdout |-> <<>>],
     [kind |-> "success", stdout |-> <<issued_name(t), "\n">>]}
OptionalScopes == {[some |-> FALSE, value |-> ""], [some |-> TRUE, value |-> "p_1"]}
ValidateTokens ==
    {StoredToken("a_" \o u, Rfc3339(7, 1), s, u, "global") :
        s \in ConfigServers, u \in ValidateUsers}
OptionalThresholds == {[some |-> FALSE, value |-> 0], [some |-> TRUE, value |-> 0]}
ValidateOutcomes == {"success", "nonzero", "spawn_error"}
ReauthOutcomes ==
    {CliFailure(k) : k \in {"spawn_error", "nonzero", "bad_json"}} \cup
    {AuthJson(t, u, e) :
        t \in {"", "n1"}, u \in {"", "u"}, e \in {Rfc3339(7, 1)}}
GetTokenOutcomes ==
    {[kind |-> k, stdout |-> <<>>] : k \in {"spawn_error", "nonzero"}} \cup
    {[kind |-> "success", stdout |-> o] : o \in {<<"n2", "\n">>, <<"\n">>}}
AuthMethod(id, method_type) == [id |-> id, method_type |-> method_type]
DiscoverOutcomes ==
    {[kind |-> k, items |-> <<>>] : k \in {"spawn_error", "nonzero", "bad_json"}} \cup
    {[kind |-> "json", items |-> l] :
        l \in {<<>>, <<AuthMethod("am", "oidc")>>,
               <<AuthMethod("pw", "password"), AuthMethod("am", "OIDC")>>}}
RaceDiscoverOutcomes ==
    {[kind |-> "nonzero", items |-> <<>>],
     [kind |-> "json", items |-> <<AuthMethod("am", "oidc")>>]}

\* Inputs of the configuration specification: JSON documents two levels deep
\* whose leaves tell the default file from the user file, and configuration
\* files with good and bad servers, levels and themes.
Objects(keys, values) ==
    {JsonObject(fields) : fields \in UNION {[ks -> values] : ks \in SUBSET keys}}
Leaves(n) == {JsonNumber(n), JsonArray(<<JsonNumber(n)>>)}
Documents(n) ==
    Leaves(n) \cup
    {doc \in Objects({"logging", "ui"},
                     Leaves(n) \cup Objects({"level", "theme"}, Leaves(n))) :
        "ui" \in DOMAIN doc.fields => doc.fields["ui"].kind # "object"}
GoodUrl == Url("https://b.example", "https", "b.example")
ConfigUrls == {GoodUrl, NoUrl, Url("not-a-url", "", ""), Url("https://", "https", "")}
ConfigServerLists ==
    {<<>>} \cup {<<BoundaryServer(id, url)>> : id \in {"", "s"}, url \in ConfigUrls}
DefaultFiles ==
    {FileMissing, FileUnreadable, FileBadJson} \cup
    {DefaultFile(AppConfig(servers, level, "auto")) :
        servers \in {<<>>, <<BoundaryServer("s", NoUrl)>>}, level \in {"info", "verbose"}}
UserFiles ==
    {FileMissing, FileUnreadable, FileBadJson} \cup
    {UserFile(JsonObject([servers |-> to_value(AppConfig(servers, "", "")).fields["servers"]])) :
        servers \in ConfigServerLists} \cup
    {UserFile(JsonObject([logging |-> JsonObject([level |-> JsonString(level)])])) :
        level \in {"INFO", "warn", "verbose"}} \cup
    {UserFile(JsonObject([ui |-> JsonObject([theme |-> JsonString(theme)])])) :
        theme \in {"Dark", "blue"}} \cup
    {UserFile(JsonObject([ui |-> JsonNumber(1)])), UserFile(JsonObject(<<>>))}

\* Inputs of the monitoring specification.
SessionIds == {"", "s1"}
Authorizations ==
    {[session_id |-> id, authorization_token |-> "at_" \o id] : id \in SessionIds}
ConnectionTypes == {"RDP", "vnc"}
SweepLoops == {1}
SweepTasks == {OnceTask} \cup SweepLoops
Ip == Word("10.0.0.5", <<1, 0>>)
Port4000 == Word("4000", <<4, 0, 0, 0>>)
ConnectOutcomes ==
    {CliOutcome(k, ListeningOn(Ip, Port4000), "denied") :
        k \in {"spawn_error", "nonzero"}} \cup
    {CliOutcome("success", o, "") :
        o \in {ListeningOn(Ip, Port4000),
               <<Word("Port:", <<>>), Word("0", <<0>>)>>,
               <<Word("Proxy", <<>>), Word("listening", <<>>)>>}}

HealthOutcomes ==
    {SessionReadFailure(k) : k \in {"spawn_error", "nonzero"}} \cup
    {SessionReadText(10),
     SessionReadJson(SomeStatus("active"), 10),
     SessionReadJson(SomeStatus("terminated"), 20),
     SessionReadJson(NoStatus, 10)}
Connected == CliOutcome("success", ListeningOn(Ip, Port4000), "")
LoopConnectOutcomes == {Connected, [Connected EXCEPT !.kind = "nonzero"]}

\* Inputs of the Boundary CLI specifications.
Lists(S, n) == UNION {[1..k -> S] : k \in 0..n}
RunnerArgs == {<<"scopes", "list">>, connect_args([authorization_token |-> "at_s1"], "rdp")}
Spawns == {"spawn_error", "running", "hung"}
ChildOutputs ==
    {[signaled |-> FALSE, code |-> c, stdout |-> o, stderr |-> e] :
        c \in {0, 1}, o \in {"", "out"}, e \in {"", "denied"}} \cup
    {[signaled |-> TRUE, code |-> 0, stdout |-> "out", stderr |-> ""]}
ConnectWords ==
    {Word("Address:", <<>>), Word("Port:", <<>>), Ip, Port4000,
     Word("0", <<0>>), Word("70000", <<7, 0, 0, 0, 0>>)}
ListItems ==
    {JsonObject([id |-> JsonString("a"), type |-> JsonString("oidc")]),
     JsonObject([id |-> JsonString("b"), default_port |-> JsonNumber(70000)]),
     JsonObject([name |-> JsonString("n")]),
     JsonNumber(7)}
ItemsDoc(items) == JsonObject([items |-> JsonArray(items)])
JsonDocs ==
    {JsonNull, JsonNumber(7), JsonString("x"), JsonArray(<<>>),
     JsonObject([status |-> JsonString("ok")]),
     JsonObject([items |-> JsonString("x")])} \cup
    {ItemsDoc(items) : items \in Lists(ListItems, MaxItems)}
ListOutcomes ==
    {CliOutcome("spawn_error", NotJson, "")} \cup
    {CliOutcome("nonzero", o, "denied") :
        o \in {NotJson, ItemsDoc(<<JsonObject([id |-> JsonString("a")])>>)}} \cup
    {CliOutcome("success", o, "") : o \in {NotJson} \cup JsonDocs}
TargetOutcomes ==
    {CliOutcome("nonzero", NotJson, "denied"),
     CliOutcome("success", NotJson, ""),
     CliOutcome("success", JsonNull, ""),
     CliOutcome("success", ItemsDoc(<<JsonObject([id |-> JsonString("t1")])>>), ""),
     CliOutcome("success", ItemsDoc(<<JsonObject([id |-> JsonString("t2")]),
                                      JsonObject([id |-> JsonString("t3")])>>), "")}
AuthorizationDoc ==
    JsonObject([authorization_token |-> JsonString("at_s1"),
                session_id |-> JsonString("s1"),
                target_id |-> JsonString("ttcp_1"),
                connection_limit |-> JsonNumber(1)])
AuthorizeOutcomes ==
    {CliOutcome("spawn_error", NotJson, "")} \cup
    {CliOutcome("nonzero", o, "denied") : o \in {NotJson, AuthorizationDoc}} \cup
    {CliOutcome("success", o, "") :
        o \in {NotJson, JsonNull, JsonNumber(7), JsonString("x"),
               JsonObject([session_id |-> JsonString("s1")]), AuthorizationDoc}}
ConnectTexts ==
    {CliOutcome("spawn_error", <<>>, "")} \cup
    {CliOutcome("nonzero", o, "denied") : o \in {<<>>, ListeningOn(Ip, Port4000)}} \cup
    {CliOutcome("success", o, "") : o \in Lists(ConnectWords, 2) \cup
                                          {ListeningOn(Ip, Port4000)}}

(***************************************************************************)
(* Specifications                                                          *)
(***************************************************************************)
Init ==
    /\ keychain = <<>>
    /\ now = 0
    /\ boundary_token_env = Unset
    /\ call = IdleCall
    /\ ret = Step("init")
    /\ active_connections = <<>>
    /\ session_health = <<>>
    /\ monitoring_enabled = FALSE
    /\ monitors = [i \in MonitorTasks |-> NoSweep]
    /\ token_monitors = [j \in TokenTasks |-> "none"]
    /\ tracked_ids = {}
    /\ workers = [w \in Workers |-> IdleWorker]
    /\ children = [c \in Children |-> NoChild]
    /\ config_manager = NoManager

\* The credential store under put, get, delete and exists.
NextStore ==
    \/ \E token \in StoreTokens : StoreAuthTokenCommand(token)
    \/ \E s \in StoreServers, u \in StoreUsers : RetrieveAuthTokenCommand(s, u)
    \/ \E s \in StoreServers, u \in StoreUsers : DeleteAuthTokenCommand(s, u)
    \/ \E s \in StoreServers, u \in StoreUsers : TokenExistsCommand(s, u)
    \/ ClockTick

SpecStore == Init /\ [][NextStore]_vars

\* check_and_refresh_token and its command, interleaved with store commands.
NextRefresh ==
    \/ \E token \in RefreshTokens : StoreAuthTokenCommand(token)
    \/ \E s \in ConfigServers, u \in RefreshUsers : DeleteAuthTokenCommand(s, u)
    \/ ClockTick
    \/ \E s \in ConfigServers, u \in RefreshUsers, th \in Thresholds :
         CheckAndRefreshToken("am", s, u, th)
    \/ CheckRetrieve
    \/ CheckExpiry
    \/ \E o \in ValidateOutcomes : ValidateDone(o)
    \/ \E o \in ReauthOutcomes : ReauthDone(o)
    \/ \E o \in GetTokenOutcomes : GetTokenDone(o)
    \/ \E s \in ConfigServers, u \in RefreshUsers, th \in OptionalThresholds :
         CheckAndRefreshTokenCommand(ConfigServers, s, u, th)
    \/ \E o \in DiscoverOutcomes : DiscoverDone(o)

SpecRefresh == Init /\ [][NextRefresh]_vars

\* The connection registry and the session monitor.
NextMonitor ==
    \/ \E a \in Authorizations, t \in ConnectionTypes, o \in ConnectOutcomes :
         EstablishConnectionCommand(a, t, o)
    \/ \E id \in SessionIds : TerminateConnectionCommand(id)
    \/ StartSessionMonitoringCommand(SweepLoops)
    \/ StopSessionMonitoringCommand
    \/ MonitorSessionsOnceCommand
    \/ \E i \in SweepLoops : LoopTick(i)
    \/ \E i \in SweepTasks : MonitorCheckEnabled(i)
    \/ \E i \in SweepTasks : MonitorSnapshot(i)
    \/ \E i \in SweepTasks : MonitorWrite(i)

SpecMonitor == Init /\ [][NextMonitor]_vars

\* The health loops that repeated start and stop commands leave behind, and
\* the token-monitoring loop beside them.
NextLoops ==
    \/ \E o \in LoopConnectOutcomes :
         EstablishConnectionCommand([session_id |-> "s1", authorization_token |-> "at_s1"], "RDP", o)
    \/ TerminateConnectionCommand("s1")
    \/ StartSessionMonitoringCommand(LoopTasks)
    \/ StopSessionMonitoringCommand
    \/ \E i \in LoopTasks : LoopTick(i)
    \/ \E i \in LoopTasks : MonitorCheckEnabled(i)
    \/ \E i \in LoopTasks : MonitorSnapshot(i)
    \/ \E i \in LoopTasks : MonitorWrite(i)
    \/ StartTokenAutoRefreshCommand(TokenTasks)
    \/ \E j \in TokenTasks : TokenLoopTick(j)

SpecLoops == Init /\ [][NextLoops]_vars

\* tokio fires every interval tick and runs every spawned task to its next
\* await: a loop that waits for its tick gets it, and a sweep that has started
\* goes on to its end.
LoopFairness ==
    \A i \in LoopTasks :
       /\ WF_vars(LoopTick(i))
       /\ WF_vars(MonitorCheckEnabled(i))
       /\ WF_vars(MonitorSnapshot(i))
       /\ WF_vars(MonitorWrite(i))

SpecLoopsFair == SpecLoops /\ LoopFairness

\* check_session_health applied to the sessions of the registry.
NextHealth ==
    \/ \E a \in Authorizations, o \in LoopConnectOutcomes :
         EstablishConnectionCommand(a, "RDP", o)
    \/ \E id \in SessionIds : TerminateConnectionCommand(id)
    \/ \E id \in SessionIds, o \in HealthOutcomes : CheckSessionHealth(id, o)
    \/ ClockTick

SpecHealth == Init /\ [][NextHealth]_vars

\* Commands run by workers that take the locks step by step, beside one
\* health loop.
NextLocks ==
    \/ \E w \in Workers, id \in SessionIds : LaunchRdpClientCommand(w, id)
    \/ \E w \in Workers : LaunchFind(w)
    \/ \E w \in Workers, found_client \in BOOLEAN : LaunchDetectDone(w, found_client)
    \/ \E w \in Workers, spawned \in BOOLEAN : LaunchDone(w, spawned)
    \/ \E w \in Workers, t \in ConnectionTypes :
         EstablishBegin(w, [session_id |-> "s1", authorization_token |-> "at_s1"], t)
    \/ \E w \in Workers, o \in LoopConnectOutcomes : EstablishConnectDone(w, o)
    \/ \E w \in Workers : EstablishLock(w)
    \/ \E w \in Workers : EstablishPush(w)
    \/ \E w \in Workers, id \in SessionIds : TerminateLock(w, id)
    \/ \E w \in Workers : TerminateRemove(w)
    \/ StartSessionMonitoringLocked(SweepLoops)
    \/ StopSessionMonitoringLocked
    \/ \E i \in SweepLoops : LoopTickLocked(i)
    \/ \E i \in SweepLoops : MonitorCheckEnabledLocked(i)
    \/ \E i \in SweepLoops : MonitorSnapshotLocked(i)
    \/ \E i \in SweepLoops : MonitorWriteLocked(i)

\* get_monitoring_stats beside establish, terminate and one health loop.
NextStats ==
    \/ \E a \in Authorizations, o \in LoopConnectOutcomes :
         EstablishConnectionCommand(a, "RDP", o)
    \/ \E id \in SessionIds : TerminateConnectionCommand(id)
    \/ StartSessionMonitoringCommand(SweepLoops)
    \/ StopSessionMonitoringCommand
    \/ \E i \in SweepLoops : LoopTick(i)
    \/ \E i \in SweepLoops : MonitorCheckEnabled(i)
    \/ \E i \in SweepLoops : MonitorSnapshot(i)
    \/ \E i \in SweepLoops : MonitorWrite(i)
    \/ GetMonitoringStatsCommand

SpecStats == Init /\ [][NextStats]_vars

SpecLocks == Init /\ [][NextLocks]_vars

\* validate_token_command invoked concurrently for the tokens of two users.
NextValidate ==
    \/ \E token \in ValidateTokens : StoreAuthTokenCommand(token)
    \/ \E w \in Workers, s \in ConfigServers \cup {"x"}, u \in ValidateUsers :
         ValidateTokenCommand(w, ConfigServers, s, u)
    \/ \E w \in Workers : ValidateSetVar(w)
    \/ \E w \in Workers : ValidateSpawn(w)
    \/ \E w \in Workers, o \in ValidateOutcomes : ValidateTokenDone(w, o)

SpecValidate == Init /\ [][NextValidate]_vars

\* merge_json_values applied to a default and a user document.
NextMerge ==
    \E default \in Documents(1), user \in Documents(2) : MergeJsonValues(default, user)

SpecMerge == Init /\ [][NextMerge]_vars

\* The ConfigManager under new and reload, with the files as they are when
\* it reads them.
NextConfig ==
    \/ \E d \in DefaultFiles, u \in UserFiles : NewConfigManager(d, u)
    \/ \E d \in DefaultFiles, u \in UserFiles : Reload(d, u)

SpecConfig == Init /\ [][NextConfig]_vars

\* Token operations on one identity running concurrently: a login stores a
\* token, and each worker runs refresh_auth_token_command or
\* complete_oidc_auth_workflow_command.
NextRace ==
    \/ StoreAuthTokenCommand(login_token(now, Rfc3339(7, 1)))
    \/ ClockTick
    \/ \E w \in Workers : RefreshAuthTokenCommand(w, ConfigServers, "s", "u")
    \/ \E w \in Workers, o \in RaceDiscoverOutcomes : RefreshDiscoverDone(w, o)
    \/ \E w \in Workers, o \in RaceReauthOutcomes(now) : RefreshReauthDone(w, o)
    \/ \E w \in Workers, o \in RaceGetTokenOutcomes(now) : RefreshGetTokenDone(w, o)
    \/ \E w \in Workers : RefreshStore(w)
    \/ \E w \in Workers, scope \in OptionalScopes :
         CompleteOidcAuthWorkflowCommand(w, "s", "u", scope)
    \/ \E w \in Workers : CompleteStore(w)

SpecRace == Init /\ [][NextRace]_vars

\* Tokens that expire while check_and_refresh_token and
\* refresh_auth_token_command (worker 1) run.
NextExpired ==
    \/ \E token \in ExpiringTokens : StoreAuthTokenCommand(token)
    \/ ClockTick
    \/ CheckAndRefreshToken("am", "s", "u", 0)
    \/ CheckRetrieve
    \/ CheckExpiry
    \/ \E o \in {"success", "nonzero"} : ValidateDone(o)
    \/ \E o \in ExpiredReauthOutcomes : ReauthDone(o)
    \/ \E o \in ExpiredGetTokenOutcomes : GetTokenDone(o)
    \/ RefreshAuthTokenCommand(1, ConfigServers, "s", "u")
    \/ \E o \in RaceDiscoverOutcomes : RefreshDiscoverDone(1, o)
    \/ \E o \in ExpiredReauthOutcomes : RefreshReauthDone(1, o)
    \/ \E o \in ExpiredGetTokenOutcomes : RefreshGetTokenDone(1, o)
    \/ RefreshStore(1)

SpecExpired == Init /\ [][NextExpired]_vars

\* launch_rdp_client, the clients it spawns and the tasks that wait for them.
NextLaunch ==
    \/ \E w \in Workers : LaunchRdpClientCommand(w, "s1")
    \/ \E w \in Workers : LaunchFind(w)
    \/ \E w \in Workers, found_client \in BOOLEAN : LaunchDetectDone(w, found_client)
    \/ \E w \in Workers, spawned \in BOOLEAN : LaunchDone(w, spawned)
    \/ \E w \in Workers :
         EstablishBegin(w, [session_id |-> "s1", authorization_token |-> "at_s1"], "rdp")
    \/ \E w \in Workers, o \in LoopConnectOutcomes : EstablishConnectDone(w, o)
    \/ \E w \in Workers : EstablishLock(w)
    \/ \E w \in Workers : EstablishPush(w)
    \/ \E c \in Children : ClientExits(c)
    \/ \E c \in Children : WaitTask(c)

SpecLaunch == Init /\ [][NextLaunch]_vars

\* A spawned task is polled: a wait that can return does return.
LaunchFairness == \A c \in Children : WF_children(WaitTask(c))

SpecLaunchFair == SpecLaunch /\ LaunchFairness

\* execute_boundary_command: commands run by workers, and their children.
NextRunner ==
    \/ \E w \in Workers, args \in RunnerArgs, spawn \in Spawns :
         ExecuteBoundaryCommand(w, args, spawn)
    \/ \E w \in Workers, output \in ChildOutputs : ChildExit(w, output)

SpecRunner == Init /\ [][NextRunner]_vars

\* A child that is going to exit does exit.
RunnerFairness ==
    \A w \in Workers : WF_workers(\E output \in ChildOutputs : ChildExit(w, output))

SpecRunnerFair == SpecRunner /\ RunnerFairness

\* The Boundary CLI operations applied to the outcomes of their subprocesses.
NextCli ==
    \/ \E o \in ListOutcomes : DiscoverAuthMethods(o)
    \/ \E o \in ListOutcomes : DiscoverScopes(o)
    \/ \E o \in ListOutcomes : DiscoverTargets(o)
    \/ \E o \in ListOutcomes :
         \E ts \in [1..Len(discover_scopes(o).value) -> TargetOutcomes] :
            DiscoverAllTargets(o, ts)
    \/ \E o \in AuthorizeOutcomes : AuthorizeSession(o)
    \/ \E a \in Authorizations, t \in SupportedConnectionTypes, o \in ConnectTexts :
         EstablishConnection(a, t, o)
    \/ \E text \in Lists(ConnectWords, MaxWords) : ParseConnectionInfo(text)
    \/ \E o \in DiscoverOutcomes : VerifyOidcSupport(o)
    \/ \E o \in ValidateOutcomes : ValidateTokenWithCli(o)

SpecCli == Init /\ [][NextCli]_vars

(***************************************************************************)
(* Properties                                                              *)
(***************************************************************************)
CheckOps == {"check_and_refresh_token", "check_and_refresh_token_command"}

\* now > expires_at, for an expiry that parses.
ExpiredAt(token, t) ==
    /\ token.expires_at.some
    /\ token.expires_at.wf
    /\ t > token.expires_at.local - token.expires_at.off

\* now >= expires_at - threshold, for an expiry that parses.
ExpiringWithin(token, threshold_minutes, t) ==
    /\ token.expires_at.some
    /\ token.expires_at.wf
    /\ t >= token.expires_at.local - token.expires_at.off - threshold_minutes

Stored(kc, server_id, user_id) ==
    create_keychain_entry(server_id, user_id) \in DOMAIN kc

StoredTokenOf(kc, server_id, user_id) ==
    from_str(kc[create_keychain_entry(server_id, user_id)])

\* C1: check_and_refresh_token on a stored, not-yet-expired token whose expiry
\* lies within the threshold runs the re-authentication exactly once, and when
\* it succeeds the new token is what get(server, user) returns next.
C1_RefreshedTokenIsWhatGetReturns ==
    (/\ ret.op = "check_and_refresh_token"
     /\ ret.call.found
     /\ ExpiringWithin(ret.call.stored_token, ret.call.threshold_minutes,
                       ret.call.checked_at))
    => /\ ret.call.reauths = 1
       /\ ret.res.kind = "some" =>
            retrieve_auth_token(keychain, now, ret.server_id, ret.user_id)
              = Ok(ret.res.tok)

\* C2: check_and_refresh_token on an identity with no stored token returns
\* "no token" in the step that looks the token up: no subprocess is spawned,
\* no re-authentication runs and the keychain is not written.
C2_AbsentReturnsNoToken ==
    [][(/\ call.pc = "retrieve"
        /\ ~call.cmd
        /\ call' # call
        /\ ~Stored(keychain, call.server_id, call.user_id))
       => /\ ret'.op = "check_and_refresh_token"
          /\ ret'.res = OkNone
          /\ ret'.calls = 0
          /\ ret'.call.reauths = 0
          /\ ret'.call.writes = 0
          /\ call' = IdleCall
          /\ keychain' = keychain]_vars

C2_Witness ==
    /\ ret.op = "check_and_refresh_token"
    /\ ret.res = OkNone
    /\ ~ret.call.stored
    /\ ~Stored(keychain, ret.server_id, ret.user_id)
    /\ DOMAIN keychain # {}

\* C3: when the re-authentication fails (the authenticate subprocess cannot
\* be spawned, exits non-zero or answers unparsable text, or the get-token
\* subprocess cannot be spawned or exits non-zero), the call returns an error
\* and the keychain is left as it was.
C3_FailedRefreshKeepsStore ==
    [][(/\ call' # call
        /\ \/ /\ call.pc = "reauth_wait"
              /\ ret'.outcome \in {"spawn_error", "nonzero", "bad_json"}
           \/ /\ call.pc = "get_token_wait"
              /\ ret'.outcome \in {"spawn_error", "nonzero"})
       => /\ ret'.op \in CheckOps
          /\ ret'.res = Err
          /\ ret'.call.writes = 0
          /\ keychain' = keychain]_vars

C3_Witness ==
    /\ ret.op = "check_and_refresh_token"
    /\ ret.res = Err
    /\ ret.call.reauths = 1
    /\ ret.outcome = "nonzero"
    /\ Stored(keychain, ret.server_id, ret.user_id)
    /\ StoredTokenOf(keychain, ret.server_id, ret.user_id) = ret.call.current_token

\* C4 as claimed: re-authentication is triggered exactly when a token is
\* stored and either now >= expiry - threshold or remote validation fails.
C4_ReauthIffStoredAndExpiringOrInvalid ==
    ret.op \in CheckOps =>
        (ret.call.reauths >= 1 <=>
            /\ ret.call.stored
            /\ \/ ExpiringWithin(ret.call.stored_token, ret.call.threshold_minutes,
                                 ret.call.checked_at)
               \/ ret.call.valid = "false")

\* C4 as amended: re-authentication is triggered (once) exactly when a token
\* is stored and not already expired when it is retrieved (now <= expiry) and
\* either now >= expiry - threshold at the expiry check, boundary included,
\* or remote validation fails.
C4_ReauthIffRetrievedAndExpiringOrInvalid ==
    ret.op \in CheckOps =>
        /\ ret.call.reauths \in {0, 1}
        /\ ret.call.reauths = 1 <=>
            /\ ret.call.stored
            /\ ~ExpiredAt(ret.call.stored_token, ret.call.retrieved_at)
            /\ \/ ExpiringWithin(ret.call.stored_token, ret.call.threshold_minutes,
                                 ret.call.checked_at)
               \/ ret.call.valid = "false"

C4_Witness ==
    /\ ret.op = "check_and_refresh_token"
    /\ ret.call.reauths = 1
    /\ ret.call.valid = "na"
    /\ ret.call.stored_token.expires_at.wf
    /\ ret.call.checked_at =
         ret.call.stored_token.expires_at.local - ret.call.stored_token.expires_at.off
           - ret.call.threshold_minutes

\* C5: when the validation subprocess of a retrieved, not expiring token
\* succeeds, the call returns that token as it was read, spawns nothing more,
\* runs no re-authentication and leaves the keychain unwritten.
C5_ValidTokenReturnedAsIs ==
    [][(/\ call.pc = "validate_wait"
        /\ call' # call
        /\ ret'.outcome = "success")
       => /\ ret'.op \in CheckOps
          /\ ret'.res = Ok(call.current_token)
          /\ ret'.calls = call.subprocess_calls
          /\ ret'.call.reauths = 0
          /\ ret'.call.writes = 0
          /\ keychain' = keychain]_vars

C5_Witness ==
    /\ ret.op = "check_and_refresh_token"
    /\ ret.outcome = "success"
    /\ ret.call.valid = "true"
    /\ ret.res = Ok(ret.call.stored_token)
    /\ ret.call.stored_token.expires_at.wf
    /\ ~ExpiringWithin(ret.call.stored_token, ret.call.threshold_minutes,
                       ret.call.checked_at)

\* C6: when the token stored for (server_id, user_id) expires within the
\* threshold, a successful check_and_refresh_token_command has
\* re-authenticated and returns the new token, not the stored one.
C6_CommandRefreshesExpiringToken ==
    (/\ ret.op = "check_and_refresh_token_command"
     /\ ret.res.kind = "some"
     /\ ExpiringWithin(ret.call.outer.token, ret.call.threshold_minutes,
                       ret.call.outer.at))
    => /\ ret.call.reauths = 1
       /\ ret.res.tok # ret.call.outer.token

\* C7: get returns an error for a stored token whose expires_at is in the past
\* (now > expires_at), returns the stored token otherwise, so it never returns
\* an expired token, and it leaves the keychain as it was.
C7_GetRejectsExpiredWithoutEviction ==
    [][ret'.op = "retrieve_auth_token"
       => /\ keychain' = keychain
          /\ ret'.res.kind = "some" => ~ExpiredAt(ret'.res.tok, now')
          /\ Stored(keychain, ret'.server_id, ret'.user_id) =>
               LET token == StoredTokenOf(keychain, ret'.server_id, ret'.user_id)
               IN  ret'.res = IF ExpiredAt(token, now) THEN Err ELSE Ok(token)]_vars

C7_Witness ==
    /\ ret.op = "retrieve_auth_token"
    /\ ret.res = Err
    /\ Stored(keychain, ret.server_id, ret.user_id)
    /\ ExpiredAt(StoredTokenOf(keychain, ret.server_id, ret.user_id), now)

\* C8: after a put, get of the put identity returns the put token (an error
\* if it is expired) and get of every other identity returns what it returned
\* before; a delete changes what get returns for no other identity.
C8_OneTokenPerIdentity ==
    [][/\ ret'.op = "store_auth_token" =>
            \A s \in StoreServers, u \in StoreUsers :
               retrieve_auth_token(keychain', now', s, u) =
                 IF s = ret'.arg.server_id /\ u = ret'.arg.user_id
                 THEN IF ExpiredAt(ret'.arg, now') THEN Err ELSE Ok(ret'.arg)
                 ELSE retrieve_auth_token(keychain, now, s, u)
       /\ ret'.op = "delete_auth_token" =>
            \A s \in StoreServers, u \in StoreUsers :
               (s # ret'.server_id \/ u # ret'.user_id) =>
                  retrieve_auth_token(keychain', now', s, u) =
                    retrieve_auth_token(keychain, now, s, u)]_vars

\* C9: delete of a stored identity succeeds and removes the entry, so that
\* exists is false and get fails, leaving every other entry as it was; delete
\* of an identity with no entry returns an error and changes nothing.
C9_DeleteRemovesOrReportsNotFound ==
    [][ret'.op = "delete_auth_token" =>
         LET account == create_keychain_entry(ret'.server_id, ret'.user_id) IN
         IF account \in DOMAIN keychain
         THEN /\ ret'.res = OkUnit
              /\ ~token_exists_in_keychain(keychain', ret'.server_id, ret'.user_id)
              /\ retrieve_auth_token(keychain', now', ret'.server_id, ret'.user_id)
                   = Err
              /\ DOMAIN keychain' = DOMAIN keychain \ {account}
              /\ \A a \in DOMAIN keychain' : keychain'[a] = keychain[a]
         ELSE /\ ret'.res = Err
              /\ keychain' = keychain]_vars

C9_Witness ==
    /\ ret.op = "delete_auth_token"
    /\ ret.res = OkUnit
    /\ ~Stored(keychain, ret.server_id, ret.user_id)
    /\ DOMAIN keychain # {}

\* C10: a monitoring tick that runs while the enabled flag is false (the
\* loop's tick, or monitor_active_sessions reading the flag) ends there: it
\* spawns no subprocess, writes nothing to the health table and leaves the
\* connection list as it was.
C10_DisabledTickDoesNothing ==
    [][\A i \in MonitorTasks :
         (/\ monitors[i].pc \in {"waiting", "monitor"}
          /\ ~monitoring_enabled
          /\ monitors'[i] # monitors[i])
         => /\ monitors'[i].pc \in {"none", "waiting", "exited"}
            /\ monitors'[i].health_checks = <<>>
            /\ ret'.calls = 0
            /\ session_health' = session_health
            /\ active_connections' = active_connections]_vars

C10_Witness ==
    /\ ret.op = "monitor_active_sessions"
    /\ ~ret.stats.monitoring_enabled
    /\ ~monitoring_enabled
    /\ active_connections # <<>>
    /\ DOMAIN session_health = {}

LiveLoop == {"waiting", "monitor", "snapshot", "write"}

SessionIdsOf(connections) ==
    {connections[k].session_id : k \in 1 .. Len(connections)}

\* C11: after stop_session_monitoring has cleared the flag, every health
\* loop that was running at that moment reaches its next tick and exits.
C11_StoppedLoopExits ==
    \A i \in LoopTasks :
       (ret.op = "stop_session_monitoring" /\ monitors[i].pc \in LiveLoop)
         ~> (monitors[i].pc = "exited")

\* C12: at most one session-health loop is running at any time, whatever
\* the sequence of start and stop commands.
C12_AtMostOneHealthLoop ==
    Cardinality({i \in LoopTasks : monitors[i].pc \in LiveLoop}) <= 1

\* C13: a started token-monitoring loop keeps running, whether or not
\* session monitoring is started or stopped: it never exits.
C13_TokenLoopKeepsRunning ==
    \A j \in TokenTasks : token_monitors[j] # "exited"

\* C14: the connection list changes only by a successful establish, which
\* appends one connection, or a successful terminate, which removes one; no
\* step of a health sweep changes it.
C14_OnlyEstablishAndTerminateChangeRegistry ==
    [][/\ active_connections' # active_connections =>
            \/ /\ ret'.op = "establish_connection"
               /\ ret'.res = OkUnit
               /\ Len(active_connections') = Len(active_connections) + 1
               /\ SubSeq(active_connections', 1, Len(active_connections))
                    = active_connections
            \/ /\ ret'.op = "terminate_connection"
               /\ ret'.res = OkUnit
               /\ \E index \in 1 .. Len(active_connections) :
                     active_connections' = remove(active_connections, index)
       /\ monitors' # monitors => active_connections' = active_connections]_vars

C14_Witness ==
    /\ ret.op = "monitor_active_sessions"
    /\ ret.stats.total_sessions = MaxConnections
    /\ Len(active_connections) = MaxConnections
    /\ SessionIdsOf(active_connections) \subseteq DOMAIN session_health

\* C15: the session ids of the connections in the registry are pairwise
\* distinct in every reachable state.
C15_SessionIdsDistinct ==
    \A k, l \in 1 .. Len(active_connections) :
       k # l => active_connections[k].session_id # active_connections[l].session_id

\* C16: every key of the health table is the session id of a connection
\* that is in the registry or was in it earlier, and the entry filed under a
\* key is the health of that session.
C16_HealthKeysWereTracked ==
    /\ DOMAIN session_health \subseteq tracked_ids
    /\ \A k \in DOMAIN session_health : session_health[k].session_id = k

C16_Witness ==
    /\ ret.op = "monitor_active_sessions"
    /\ ret.stats.total_sessions = 1
    /\ active_connections = <<>>
    /\ Cardinality(DOMAIN session_health) = 1

\* C17: a successful establish keeps every connection that was in the
\* registry and adds the new one; a successful terminate removes one connection
\* with the given session id and keeps every connection with another session
\* id, in order; neither touches the health table.
C17_NoLostUpdate ==
    [][/\ (ret'.op = "establish_connection" /\ ret'.res = OkUnit) =>
            /\ Len(active_connections') = Len(active_connections) + 1
            /\ SubSeq(active_connections', 1, Len(active_connections))
                 = active_connections
            /\ active_connections'[Len(active_connections')].session_id
                 = ret'.session_id
            /\ session_health' = session_health
       /\ (ret'.op = "terminate_connection" /\ ret'.res = OkUnit) =>
            /\ Len(active_connections') = Len(active_connections) - 1
            /\ SelectSeq(active_connections', LAMBDA c : c.session_id # ret'.session_id)
                 = SelectSeq(active_connections, LAMBDA c : c.session_id # ret'.session_id)
            /\ session_health' = session_health]_vars

C17_Witness ==
    /\ ret.op = "terminate_connection"
    /\ ret.res = OkUnit
    /\ Len(active_connections) = 1
    /\ active_connections[1].session_id # ret.session_id
    /\ active_connections[1].session_id \in DOMAIN session_health
    /\ ret.session_id \in DOMAIN session_health

\* C18: a worker that awaits a subprocess holds no AppState lock, and a lock
\* is held by at most one worker.
C18_NoLockAcrossSubprocess ==
    /\ \A w \in Workers : workers[w].in_flight => workers[w].holds = {}
    /\ \A w, v \in Workers : w # v => workers[w].holds \cap workers[v].holds = {}

C18_Witness ==
    \E w, v \in Workers :
       /\ workers[w].pc = "detect_wait"
       /\ workers[w].in_flight
       /\ workers[v].pc = "push"
       /\ workers[v].holds = {"active_connections"}

\* C19: an enabled monitoring tick queries the remote status of each
\* tracked connection through the CLI: a sweep over n connections has made
\* at least n subprocess calls.
C19_SweepQueriesEachSession ==
    (ret.op = "monitor_active_sessions" /\ ret.stats.total_sessions > 0)
    => ret.calls >= ret.stats.total_sessions

\* C20: after k failed health checks of a session in a row, the health
\* returned for it has consecutive_failures = k and error_count >= k.
C20_FailuresAccumulate ==
    (ret.op = "check_session_health" /\ ret.streak >= 1)
    => /\ ret.health.consecutive_failures = ret.streak
       /\ ret.health.error_count >= ret.streak

\* C21: the runner tells a spawn failure from a command failure: a child
\* that was spawned and exited non-zero is a normal result with success
\* false, its exit code, stdout and stderr; the only error is a child that
\* could not be spawned.
C21_NonZeroExitIsAResult ==
    ret.op = "execute_boundary_command" =>
        /\ ~ret.output.ok <=> ret.outcome = "spawn_error"
        /\ ret.outcome = "nonzero" =>
             /\ ret.output.value.success = FALSE
             /\ ret.output.value.exit_code # 0
             /\ ~ret.input.output.signaled =>
                    ret.output.value.exit_code = ret.input.output.code
             /\ ret.output.value.stdout = ret.input.output.stdout
             /\ ret.output.value.stderr = ret.input.output.stderr
        /\ ret.outcome = "success" => ret.output.value.success = TRUE

C21_Witness ==
    /\ ret.op = "execute_boundary_command"
    /\ ret.outcome = "nonzero"
    /\ ret.output.ok
    /\ ret.output.value.exit_code = 1
    /\ ret.output.value.stderr = "denied"

\* C22: every subprocess invocation has a timeout, so a run that has spawned
\* its child always returns, even when the child never exits.
C22_RunAlwaysReturns ==
    \A w \in Workers : workers[w].in_flight ~> ~workers[w].in_flight

\* The leftmost place of `text` where `label` is followed by a word that
\* `accepts` takes, 0 when there is none.
FirstAfter(text, label, accepts(_)) ==
    LET at == {k \in 1..(Len(text) - 1) : text[k].word = label /\ accepts(text[k + 1])}
    IN  IF at = {} THEN 0 ELSE CHOOSE k \in at : \A j \in at : k <= j

\* C23: parse_connection_info on a text with `Address: <a>` and `Port: <n>`
\* returns (a, n), takes 127.0.0.1 where the address is absent, and fails
\* where the port is absent, 0 or not a 16-bit number: it never returns
\* port 0.
C23_ParsedPortIsNeverZero ==
    ret.op = "parse_connection_info" =>
        LET text == ret.input
            any(word) == TRUE
            starts_with_digit(word) == word.digits # <<>>
            a == FirstAfter(text, "Address:", any)
            p == FirstAfter(text, "Port:", starts_with_digit)
            n == IF p = 0 THEN 0 ELSE decimal(text[p + 1].digits)
        IN  /\ ret.output.ok <=> (p # 0 /\ n \in 1..U16Max)
            /\ ret.output.ok =>
                 /\ ret.output.port = n
                 /\ ret.output.port # 0
                 /\ ret.output.address = IF a = 0 THEN "127.0.0.1"
                                         ELSE text[a + 1].word

C23_Witness ==
    /\ ret.op = "parse_connection_info"
    /\ ret.output.ok
    /\ ret.output.address = "127.0.0.1"
    /\ ret.output.port = 4000
    /\ Len(ret.input) = MaxWords

\* C24: establish_connection registers a connection only on full success: a
\* failed connect or an undetermined local port is an error that leaves the
\* registry unchanged, so every connection of the registry has a local port
\* other than 0.
C24_RegistersOnlyOnFullSuccess ==
    /\ [](\A k \in 1..Len(active_connections) :
             active_connections[k].local_port # 0)
    /\ [][(ret'.op = "establish_connection" /\ ret'.res = Err)
             => active_connections' = active_connections]_vars

C24_Witness ==
    /\ ret.op = "establish_connection"
    /\ ret.res = Err
    /\ ret.calls = 1
    /\ Len(active_connections) > 0

\* The targets of the scopes from k on whose discovery succeeded, in scope
\* order.
RECURSIVE SucceededTargets(_, _)
SucceededTargets(outcomes, k) ==
    IF k > Len(outcomes) THEN <<>>
    ELSE LET targets == discover_targets(outcomes[k]) IN
         (IF targets.ok THEN targets.value ELSE <<>>)
         \o SucceededTargets(outcomes, k + 1)

\* C25: discover_all_targets goes on past the scopes whose discovery fails:
\* its result is the concatenation, in scope order, of the targets of the
\* scopes whose discovery succeeded, and it fails only when the listing of
\* the scopes fails.
C25_FanOutSkipsFailedScopes ==
    ret.op = "discover_all_targets" =>
        /\ ret.output.ok <=> discover_scopes(ret.input.scopes).ok
        /\ ret.output.ok =>
             ret.output.value = SucceededTargets(ret.input.targets, 1)

C25_Witness ==
    /\ ret.op = "discover_all_targets"
    /\ ret.output.ok
    /\ Len(ret.input.targets) = 2
    /\ ~discover_targets(ret.input.targets[1]).ok
    /\ Len(ret.output.value) = 2

CliSteps ==
    {"discover_auth_methods", "discover_scopes", "discover_targets",
     "authorize_session", "establish_connection"}

\* C26: in each of discover_auth_methods, discover_scopes, discover_targets,
\* authorize_session and establish_connection a subprocess that exits
\* non-zero makes the operation an error that carries the stderr, and no
\* object is returned.
C26_NonZeroExitFailsTheStep ==
    (ret.op \in CliSteps /\ ret.outcome = "nonzero") =>
        LET outcome == IF ret.op = "establish_connection"
                       THEN ret.input.outcome ELSE ret.input
        IN  /\ ~ret.output.ok
            /\ ret.res = Err
            /\ \E k \in DOMAIN ret.output.error :
                  ret.output.error[k] = outcome.stderr
            /\ IF ret.op = "establish_connection"
               THEN ret.output.connection = <<>>
               ELSE ret.output.value = <<>>

C26_Witness ==
    /\ ret.op = "authorize_session"
    /\ ret.outcome = "nonzero"
    /\ ret.input.stdout = AuthorizationDoc
    /\ ~ret.output.ok

ListSteps == {"discover_auth_methods", "discover_scopes", "discover_targets"}

\* C27: for a JSON output with an items array, the list parsers return a
\* list of the length of the array, in the order of the array; an item
\* without an id is kept, with an empty id.
C27_OneEntryPerItem ==
    (/\ ret.op \in ListSteps
     /\ ret.input.kind = "success"
     /\ ret.input.stdout.kind = "object"
     /\ "items" \in DOMAIN ret.input.stdout.fields
     /\ ret.input.stdout.fields.items.kind = "array") =>
        LET items == ret.input.stdout.fields.items.elems IN
        /\ ret.output.ok
        /\ Len(ret.output.value) = Len(items)
        /\ \A k \in 1..Len(items) :
              ret.output.value[k].id =
                 IF /\ items[k].kind = "object"
                    /\ "id" \in DOMAIN items[k].fields
                    /\ items[k].fields.id.kind = "string"
                 THEN items[k].fields.id.s ELSE ""

C27_Witness ==
    /\ ret.op = "discover_targets"
    /\ ret.output.ok
    /\ Len(ret.output.value) = 2
    /\ ret.output.value[1].id = ""
    /\ ret.output.value[2].id = "b"

\* C28: a stdout that is valid JSON but neither an object nor an array at
\* the top (a number, a string, null) makes the discover_* and
\* authorize_session parsers return a parse error, not a success value.
C28_ScalarJsonIsAParseError ==
    (/\ ret.op \in ListSteps \cup {"authorize_session"}
     /\ ret.input.kind = "success"
     /\ ret.input.stdout.kind \in {"null", "number", "string"}) =>
        ~ret.output.ok

\* C29: the authorization token of a session authorization never appears in
\* a log record: it flows to the argument list of the connect subprocess
\* and nowhere else.
C29_AuthorizationTokenNotLogged ==
    /\ (ret.op = "authorize_session" /\ ret.output.ok
        /\ ret.output.value.authorization_token # "") =>
           ret.output.value.authorization_token \notin ret.logs
    /\ ret.op = "establish_connection" =>
           ret.input.authorization.authorization_token \notin ret.logs

\* C30: a spawn failure, a non-zero exit or a parse failure of a leaf is a
\* failure of its immediate caller; apart from the scope fan-out and the
\* health sweep no operation turns one into a success value, token
\* validation and the OIDC-support check included.
C30_LeafFailuresPropagate ==
    (/\ ret.op \in CliSteps \cup {"validate_token_with_cli", "verify_oidc_support"}
     /\ ret.outcome \in {"spawn_error", "nonzero", "bad_json", "bad_output"}) =>
        ret.res = Err

\* C37: the keychain account derived from (server_id, user_id) is injective,
\* ids that contain '@' included: a token put for one identity is never
\* returned by a get of another identity.
C37_GetReturnsOnlyOwnIdentity ==
    (ret.op = "retrieve_auth_token" /\ ret.res.kind = "some") =>
        /\ ret.res.tok.server_id = ret.server_id
        /\ ret.res.tok.user_id = ret.user_id

\* C39: every token that a successful re-authentication returns and stores
\* has a non-empty access_token: where the authenticate response carries no
\* token, `config get-token` has to yield a non-empty value, otherwise the
\* refresh fails and nothing is stored.
C39_RefreshedTokenIsNotEmpty ==
    (ret.op \in CheckOps /\ ret.call.reauths >= 1 /\ ret.res.kind = "some") =>
        /\ ret.res.tok.access_token # ""
        /\ \A a \in DOMAIN keychain : from_str(keychain[a]).access_token # ""

\* C32: launch_rdp_client returns Ok without waiting for the client to exit
\* (the client it just spawned is still running and a task holds it), and
\* every spawned client that exits is eventually reaped by its wait task.
C32_LaunchReturnsAndClientIsReaped ==
    /\ [][(ret'.op = "launch_rdp_client" /\ ret'.res = OkUnit) =>
            \E c \in Children :
                /\ children[c].status # "running"
                /\ children'[c] = [status |-> "running", waiter |-> TRUE]]_vars
    /\ \A c \in Children :
         (children[c].status = "exited") ~> (children[c].status = "reaped")

\* launch_rdp_client has returned Ok while its client still runs.
C32_Witness ==
    /\ ret.op = "launch_rdp_client"
    /\ ret.res = OkUnit
    /\ \E c \in Children : children[c].status = "running"

C38_StatsCountsWithinTotal ==
    ret.op = "get_monitoring_stats" =>
        ret.stats.active_sessions + ret.stats.failed_sessions <= ret.stats.total_sessions

\* C36: with validations running concurrently, every validation subprocess
\* is spawned with BOUNDARY_TOKEN equal to the access token of the call that
\* spawns it (never unset by, or set to the token of, another call), and once
\* every call has returned the variable is unset.
C36_SpawnSeesOwnToken ==
    /\ ret.op = "validate_spawn" =>
           ret.env = SetTo(ret.call.current_token.access_token)
    /\ (\A w \in Workers : workers[w].pc = "idle") => boundary_token_env = Unset

\* The time the access token of a stored token was issued at, and whether a
\* re-authentication issued it.
IssuedAt(stored) ==
    CHOOSE t \in 0..MaxTime :
        from_str(stored).access_token \in {login_name(t), issued_name(t)}

IsRefreshed(stored) ==
    \E t \in 0..MaxTime : from_str(stored).access_token = issued_name(t)

\* C31: under every interleaving of concurrent refreshes and scope updates
\* of one identity, no write of refresh_auth_token_command or
\* complete_oidc_auth_workflow_command replaces a refreshed access token in
\* the store by an access token that was issued earlier.
C31_NoOlderTokenOverNewer ==
    [][\A a \in DOMAIN keychain \cap DOMAIN keychain' :
         (/\ ret'.op \in {"refresh_auth_token_command",
                          "complete_oidc_auth_workflow_command"}
          /\ IsRefreshed(keychain[a]))
         => IssuedAt(keychain'[a]) >= IssuedAt(keychain[a])]_vars

\* The token was in the store and already expired (now > expires_at) when
\* the call retrieved it.
ExpiredWhenRetrieved(c) ==
    c.stored /\ ExpiredAt(c.stored_token, c.retrieved_at)

\* C35: a stored token that is already expired when it is retrieved is never
\* refreshed: check_and_refresh_token returns "no token" for it without a
\* subprocess, refresh_auth_token_command fails for it before any subprocess,
\* and whoever is in or past the re-authentication retrieved a stored token
\* that was not expired then.
C35_ExpiredTokenIsNeverRefreshed ==
    /\ (ret.op = "check_and_refresh_token" /\ ExpiredWhenRetrieved(ret.call)) =>
           ret.res = OkNone /\ ret.calls = 0 /\ ret.call.reauths = 0
    /\ (ret.op = "refresh_auth_token_command" /\ ExpiredWhenRetrieved(ret.call)) =>
           ret.res = Err /\ ret.calls = 0 /\ ret.call.reauths = 0
    /\ call.pc \in {"reauth_wait", "get_token_wait"} =>
           call.stored /\ ~ExpiredWhenRetrieved(call)
    /\ \A w \in Workers :
         workers[w].pc \in {"refresh_reauth_wait", "refresh_get_token_wait",
                            "refresh_store"} =>
           workers[w].call.stored /\ ~ExpiredWhenRetrieved(workers[w].call)

\* refresh_auth_token_command has just returned for a stored token that was
\* expired when the command retrieved it.
C35_Witness ==
    /\ ret.op = "refresh_auth_token_command"
    /\ ExpiredWhenRetrieved(ret.call)

\* What the claim says of a merge of `user` over `default` at one level:
\* a key the user does not set keeps its default, a key only the user sets
\* has the user value, and a key both set holds `inner` of the two values.
MergedKeyByKey(default, user, merged, inner(_, _, _)) ==
    /\ merged.kind = "object"
    /\ DOMAIN merged.fields = DOMAIN default.fields \cup DOMAIN user.fields
    /\ \A key \in DOMAIN default.fields \ DOMAIN user.fields :
         merged.fields[key] = default.fields[key]
    /\ \A key \in DOMAIN user.fields \ DOMAIN default.fields :
         merged.fields[key] = user.fields[key]
    /\ \A key \in DOMAIN default.fields \cap DOMAIN user.fields :
         inner(default.fields[key], user.fields[key], merged.fields[key])

BothObjects(default, user) == default.kind = "object" /\ user.kind = "object"

\* Past the depth of the documents the user value stands.
UserReplaces(default, user, merged) == merged = user

MergedInner(default, user, merged) ==
    IF BothObjects(default, user)
    THEN MergedKeyByKey(default, user, merged, UserReplaces)
    ELSE merged = user

\* C33: merge_json_values overrides exactly the keys the user document sets:
\* two objects are merged key by key and so are the objects under a key both
\* set, an array or primitive of the user replaces the default value whole,
\* and every key the user document does not set keeps its default value.
C33_MergeOverridesExactlyUserKeys ==
    ret.op = "merge_json_values" =>
        IF BothObjects(ret.input.default, ret.input.user)
        THEN MergedKeyByKey(ret.input.default, ret.input.user, ret.output, MergedInner)
        ELSE ret.output = ret.input.user

\* A merge where, under one top-level key, the user sets one nested key and
\* the default another, and a second top-level key is the default's alone.
C33_Witness ==
    /\ ret.op = "merge_json_values"
    /\ BothObjects(ret.input.default, ret.input.user)
    /\ DOMAIN ret.input.default.fields = {"logging", "ui"}
    /\ DOMAIN ret.input.user.fields = {"logging"}
    /\ BothObjects(ret.input.default.fields["logging"], ret.input.user.fields["logging"])
    /\ DOMAIN ret.input.default.fields["logging"].fields = {"level"}
    /\ DOMAIN ret.input.user.fields["logging"].fields = {"theme"}
    /\ ret.input.default.fields["logging"].fields["level"].kind = "array"

\* What the claim calls a validated configuration: no server with an empty
\* id or an empty or unparsable URL, and a logging level and a UI theme of
\* the allowed sets (compared case-insensitively, as the code does).
Validated(config) ==
    /\ \A i \in 1..Len(config.servers) :
         /\ config.servers[i].id # ""
         /\ config.servers[i].url.text # ""
         /\ url_parse(config.servers[i].url)
    /\ to_lowercase(config.logging.level) \in {"trace", "debug", "info", "warn", "error"}
    /\ to_lowercase(config.ui.theme) \in {"auto", "light", "dark"}

\* C34: a ConfigManager only ever holds a validated configuration; new and
\* reload return an error whenever the configuration they were about to hold
\* is not validated; and a reload that returns an error leaves the
\* configuration of the manager as it was.
C34_ManagerHoldsValidatedConfig ==
    /\ [](config_manager.constructed => Validated(config_manager.config))
    /\ [](ret.op \in {"new", "reload"} =>
            LET merged == merged_config(ret.input.default_file, ret.input.user_file)
            IN  (merged.ok /\ ~Validated(merged.config)) => ret.res = Err)
    /\ [][(ret'.op = "reload" /\ ret'.res = Err) =>
            config_manager' = config_manager]_vars

\* A reload has just failed on a user file whose server has an unparsable
\* URL, with a manager that holds a configuration.
C34_Witness ==
    /\ ret.op = "reload"
    /\ ret.res = Err
    /\ config_manager.constructed
    /\ ret.input.user_file.kind = "json"
    /\ LET merged == merged_config(ret.input.default_file, ret.input.user_file)
       IN  /\ merged.ok
           /\ \E i \in 1..Len(merged.config.servers) :
                /\ merged.config.servers[i].url.text # ""
                /\ ~url_parse(merged.config.servers[i].url)

====
